---- MODULE Spec2Model ----
(***************************************************************************)
(* Reconciliation pipeline of the financial KPI extraction repository:     *)
(*   stage 4   ExtractionConsolidator  (scripts/stage4_consolidate.py)     *)
(*   stage 4.5 GarbageFilter           (scripts/stage4_5_filter_garbage.py)*)
(*   stage 5   SelfVerifier / VastSelfVerifier                             *)
(*                                     (scripts/stage5_self_verify_*.py)   *)
(*   stage 6   GeminiReviewer          (scripts/stage6_gemini_review.py)   *)
(*                                                                         *)
(* Conventions of the model                                                *)
(*  - A Python dict is a record; an optional key (or a value that may be   *)
(*    None) is a sequence of length <= 1: <<>> is "absent"/None, <<x>> is  *)
(*    the value x.                                                         *)
(*  - A Python str that the code inspects (kpi_name, unit) is a sequence   *)
(*    of one-character strings, so that len(), startswith(), "in" and the  *)
(*    regular expression are computed, not assumed.                        *)
(*  - A confidence is an integer number of thousandths: One = 1.0.         *)
(*    c * 1.1 is (c * 110) \div 100 and c * 1.05 is (c * 105) \div 100.    *)
(*  - Every stage is a separate process: it loads the artifact the         *)
(*    previous stage saved and saves its own.  The variable artifact is    *)
(*    the file last saved; at the start it is the directory of page-level  *)
(*    extraction files that stage 4 reads.                                 *)
(*  - Stage 4.5 saves nothing: build_output constructs                     *)
(*    ExtractionConsolidator(None), whose __init__ raises TypeError.  The  *)
(*    artifact stage 5 is given is therefore the one stage 4 saved.        *)
(***************************************************************************)
EXTENDS Integers, Sequences, FiniteSets, TLC

VARIABLES
    pc,             \* where the pipeline is
    artifact,       \* the artifact last saved (a record keyed like the JSON)
    input,          \* the artifact the running (or last run) stage loaded
    variant,        \* stage 5 variant that is running or ran last
    todo,           \* stage 5: pages still to verify; stage 6: items to review
    verified_extractions, \* stage 5: verify_all's accumulator
    stats,          \* stage 5: verification_stats; stage 6: review_stats
    reviewed_map,   \* stage 6: extraction_id -> review
    replies,        \* the oracle's answers in the first run of the stage that runs or ran last
    runs,           \* how often stage 5 and stage 6 have been started
    log,            \* what the stage logged or recorded about failures
    filter_result,  \* stage 4.5: what filter_extractions returned to main
    instance        \* stage 5 on Vast: whether an instance the stage created exists

vars == << pc, artifact, input, variant, todo, verified_extractions,
           stats, reviewed_map, replies, runs, log, filter_result,
           instance >>

(***************************************************************************)
(* Optional values                                                         *)
(***************************************************************************)
None == << >>
Some(x) == << x >>
IsSome(o) == Len(o) = 1
Get(o, default) == IF Len(o) = 1 THEN o[1] ELSE default

Min(a, b) == IF a <= b THEN a ELSE b

RECURSIVE SeqSum(_)
SeqSum(s) == IF s = << >> THEN 0 ELSE Head(s) + SeqSum(Tail(s))

Range(s) == { s[i] : i \in 1..Len(s) }

(***************************************************************************)
(* Strings as character sequences                                          *)
(***************************************************************************)
UpperChars == << "A","B","C","D","E","F","G","H","I","J","K","L","M",
                 "N","O","P","Q","R","S","T","U","V","W","X","Y","Z" >>
LowerChars == << "a","b","c","d","e","f","g","h","i","j","k","l","m",
                 "n","o","p","q","r","s","t","u","v","w","x","y","z" >>

\* str.lower(), one character
LowerChar(c) ==
    IF \E i \in 1..26 : UpperChars[i] = c
    THEN LowerChars[CHOOSE i \in 1..26 : UpperChars[i] = c]
    ELSE c

\* str.lower()
lower(s) == [ i \in 1..Len(s) |-> LowerChar(s[i]) ]

Whitespace == { " ", "\t", "\n" }

\* str.strip()
RECURSIVE lstrip(_)
lstrip(s) == IF s # << >> /\ Head(s) \in Whitespace THEN lstrip(Tail(s)) ELSE s
RECURSIVE rstrip(_)
rstrip(s) ==
    IF s # << >> /\ s[Len(s)] \in Whitespace
    THEN rstrip(SubSeq(s, 1, Len(s) - 1)) ELSE s
strip(s) == rstrip(lstrip(s))

\* str.startswith(prefix)
startswith(s, prefix) ==
    Len(prefix) <= Len(s) /\ SubSeq(s, 1, Len(prefix)) = prefix

\* "sub in s"
contains(s, sub) ==
    \E i \in 0..(Len(s) - Len(sub)) : SubSeq(s, i + 1, i + Len(sub)) = sub

NumberChars == { "0","1","2","3","4","5","6","7","8","9",".","," }

\* re.match(r'^[0-9.,]+$', s): $ also matches before one trailing newline
re_match_number(s) ==
    LET body == IF s # << >> /\ s[Len(s)] = "\n"
                THEN SubSeq(s, 1, Len(s) - 1) ELSE s
    IN  body # << >> /\ \A i \in 1..Len(body) : body[i] \in NumberChars

(***************************************************************************)
(* GarbageFilter's fixed lists (stage4_5_filter_garbage.py:23-55)          *)
(***************************************************************************)
BLACKLIST_PREFIXES ==
    << <<"t", "a", "b", "l", "e">>,
       <<"s", "c", "h", "e", "d", "u", "l", "e">>,
       <<"n", "o", "t", "e">>,
       <<"a", "n", "n", "e", "x", "u", "r", "e">>,
       <<"f", "i", "g", "u", "r", "e">>,
       <<"c", "h", "a", "r", "t">>,
       <<"g", "r", "a", "p", "h">>,
       <<"p", "a", "g", "e">>,
       <<"s", "e", "c", "t", "i", "o", "n">>,
       <<"a", "p", "p", "e", "n", "d", "i", "x">>,
       <<"e", "x", "h", "i", "b", "i", "t">> >>

BLACKLIST_CONTAINS ==
    << <<"a", "s", " ", "p", "e", "r">>,
       <<"i", "n", " ", "a", "c", "c", "o", "r", "d", "a", "n", "c", "e">>,
       <<"r", "e", "f", "e", "r", " ", "t", "o">>,
       <<".", ".", ".">>,
       <<"-", "-", "-">>,
       <<"*", "*", "*">>,
       <<"_", "_", "_">>,
       <<"t", "o", "t", "a", "l", " ", "a", "s", "s", "e", "t", "s">>,
       <<"t", "o", "t", "a", "l", " ", "l", "i", "a", "b", "i", "l", "i", "t", "i", "e", "s">>,
       <<"r", "e", "v", "e", "n", "u", "e">>,
       <<"p", "r", "o", "f", "i", "t">>,
       <<"l", "o", "s", "s">>,
       <<"b", "a", "l", "a", "n", "c", "e", " ", "s", "h", "e", "e", "t">> >>

VALID_UNITS ==
    << <<"e", "m", "p", "l", "o", "y", "e", "e", "s">>,
       <<"c", "o", "u", "n", "t">>,
       <<"n", "u", "m", "b", "e", "r">>,
       <<"u", "n", "i", "t", "s">>,
       <<"b", "r", "a", "n", "c", "h", "e", "s">>,
       <<"s", "t", "o", "r", "e", "s">>,
       <<"c", "u", "s", "t", "o", "m", "e", "r", "s">>,
       <<"s", "u", "b", "s", "c", "r", "i", "b", "e", "r", "s">>,
       <<"u", "s", "e", "r", "s">>,
       <<"a", "c", "c", "o", "u", "n", "t", "s">>,
       <<"i", "n", "r">>,
       <<"u", "s", "d">>,
       <<"e", "u", "r">>,
       <<"g", "b", "p">>,
       <<"c", "r", "o", "r", "e", "s">>,
       <<"m", "i", "l", "l", "i", "o", "n", "s">>,
       <<"l", "a", "k", "h", "s">>,
       <<"b", "i", "l", "l", "i", "o", "n", "s">>,
       <<"t", "h", "o", "u", "s", "a", "n", "d", "s">>,
       <<"p", "e", "r", "c", "e", "n", "t", "a", "g", "e">>,
       <<"%">>,
       <<"p", "e", "r", "c", "e", "n", "t">>,
       <<"p", "e", "r", " ", "m", "o", "n", "t", "h">>,
       <<"p", "e", "r", " ", "a", "n", "n", "u", "m">>,
       <<"p", "e", "r", " ", "d", "a", "y">>,
       <<"a", "r", "p", "u">>,
       <<"t", "o", "n", "s">>,
       <<"k", "g">>,
       <<"k", "i", "l", "o", "g", "r", "a", "m", "s">>,
       <<"l", "i", "t", "e", "r", "s">>,
       <<"m", "w">>,
       <<"k", "w">>,
       <<"s", "q", ".", "f", "t", ".">>,
       <<"a", "c", "r", "e", "s">>,
       <<"h", "e", "c", "t", "a", "r", "e", "s">>,
       <<"u", "n", "i", "t", "s">> >>

(***************************************************************************)
(* The names and units the model's inputs use                              *)
(***************************************************************************)
NameEmployeeCount == <<"E", "m", "p", "l", "o", "y", "e", "e", " ", "C", "o", "u", "n", "t">>
NameAttrition == <<"A", "t", "t", "r", "i", "t", "i", "o", "n", " ", "R", "a", "t", "e">>
UnitEmployees == <<"e", "m", "p", "l", "o", "y", "e", "e", "s">>
UnitPercent == <<"%">>

\* two characters
NameTwoChars == <<"A", "b">>
\* three characters
NameThreeChars == <<"E", "P", "S">>
\* fifty characters
NameFiftyChars ==
    << "C", "u", "s", "t", "o", "m", "e", "r", " ", "a", "c", "q", "u",
       "i", "s", "i", "t", "i", "o", "n", " ", "c", "o", "s", "t", " ",
       "p", "e", "r", " ", "n", "e", "w", " ", "r", "u", "r", "a", "l",
       " ", "s", "u", "b", "s", "c", "r", "i", "b", "e", "r" >>
\* fifty-one characters, and a blacklisted prefix
NameFiftyOneChars ==
    << "T", "a", "b", "l", "e", " ", "o", "f", " ", "c", "u", "s", "t",
       "o", "m", "e", "r", " ", "a", "c", "q", "u", "i", "s", "i", "t",
       "i", "o", "n", " ", "c", "o", "s", "t", " ", "b", "y", " ", "n",
       "e", "w", " ", "c", "u", "s", "t", "o", "m", "e", "r", "s" >>
\* a blacklisted prefix, in capitals
NameTable == <<"T", "a", "b", "l", "e", " ", "4">>
\* a blacklisted prefix and a blacklisted phrase
NameNoteRevenue == <<"N", "o", "t", "e", ":", " ", "r", "e", "v", "e", "n", "u", "e">>
\* a blacklisted phrase
NameNetRevenue == <<"N", "e", "t", " ", "R", "e", "v", "e", "n", "u", "e">>
\* a blacklisted phrase made of number characters
NameDots == <<".", ".", ".">>
\* just a number
NameNumber == <<"1", ",", "2", "3", "4", ".", "5">>
\* digits and punctuation that are not a number
NameFraction == <<"1", "2", "/", "3", "4">>
\* contains whitelist entries
UnitCrores == <<"I", "N", "R", " ", "C", "r", "o", "r", "e", "s">>
\* a whitelist entry once lowered and stripped
UnitPadded == <<" ", "E", "m", "p", "l", "o", "y", "e", "e", "s", " ">>
\* not on the whitelist
UnitWidgets == <<"w", "i", "d", "g", "e", "t", "s">>
\* empty
UnitEmpty == << >>

(***************************************************************************)
(* The claims the model runs on                                            *)
(***************************************************************************)
\* 1.0 as a confidence
One == 1000

NoFlags == [present |-> FALSE, needs_review |-> FALSE, conflicting_values |-> FALSE]
EmptyFlags == [present |-> TRUE, needs_review |-> FALSE, conflicting_values |-> FALSE]

\* A page-level extraction as stage 3 leaves it.
RawExtraction(id, name, value, conf, page, flags, unit, category) ==
    [ extraction_id |-> id,
      kpi_name |-> name,
      fiscal_year |-> 2024,
      value_numeric |-> value,
      value_actual |-> value,
      unit |-> unit,
      kpi_category |-> category,
      confidence |-> conf,
      source |-> [page |-> page],
      flags |-> flags,
      extraction_notes |-> None,
      verification_status |-> None,
      verification_confidence |-> None,
      verification_notes |-> None,
      gemini_reviewed |-> None,
      gemini_decision |-> None,
      gemini_notes |-> None,
      review_tier |-> None ]

\* The kinds of raw extraction the model draws its input from.
RawKinds ==
    { [name |-> NameEmployeeCount, value |-> Some(15000), conf |-> 800,
       page |-> 12, flags |-> NoFlags, unit |-> UnitEmployees, category |-> "operational"],
      [name |-> NameEmployeeCount, value |-> Some(15000), conf |-> 600,
       page |-> 45, flags |-> NoFlags, unit |-> UnitEmployees, category |-> "operational"],
      [name |-> NameEmployeeCount, value |-> Some(15500), conf |-> 800,
       page |-> 45, flags |-> EmptyFlags, unit |-> UnitEmployees, category |-> "operational"],
      [name |-> NameAttrition, value |-> Some(15500), conf |-> 700,
       page |-> 12, flags |-> NoFlags, unit |-> UnitPercent, category |-> "operational"],
      [name |-> NameAttrition, value |-> None, conf |-> 950,
       page |-> 45, flags |-> NoFlags, unit |-> UnitPercent, category |-> "financial_statement_like"] }

\* The longest list of raw extractions the model starts from.
MaxRaw == 3

RawLists ==
    UNION { [ 1..n -> RawKinds ] : n \in 0..MaxRaw }

\* The kpi names, the (value_numeric, kpi_category) pairs, the units and the
\* confidences the filter's inputs are drawn from.
FilterNames ==
    { NameTwoChars, NameThreeChars, NameFiftyChars, NameFiftyOneChars, NameTable,
      NameNoteRevenue, NameNetRevenue, NameDots, NameNumber, NameFraction }
FilterValues ==
    { << Some(100), "operational" >>, << None, "operational" >>,
      << None, "forward_looking" >>, << None, "governance" >> }
FilterUnits == { UnitEmployees, UnitCrores, UnitPadded, UnitWidgets, UnitEmpty }
FilterConfidences == { 499, 500 }

\* The kinds of raw extraction the filter is run on.
FilterKinds ==
    { [name |-> n, value |-> v[1], conf |-> c, page |-> 12, flags |-> NoFlags,
       unit |-> u, category |-> v[2]] :
        n \in FilterNames, v \in FilterValues, u \in FilterUnits, c \in FilterConfidences }

\* The kinds the extractions after the first are drawn from: a short name
\* and two names no rule rejects, below and at the confidence threshold.
FilterCompanions ==
    { k \in FilterKinds : /\ k.name \in { NameTwoChars, NameThreeChars, NameFraction }
                          /\ k.value = Some(100)
                          /\ k.unit = UnitEmployees }

\* The longest list of raw extractions the filter is run on.
MaxFilterRaw == 3

\* no extraction, or one of any kind followed by companions
FilterLists ==
    { << >> } \cup
    UNION { { << k >> \o rest : k \in FilterKinds, rest \in [ 1..n -> FilterCompanions ] } :
              n \in 0..(MaxFilterRaw - 1) }

\* generate_extraction_id(): every extraction gets an id of its own
MakeRaw(kinds) ==
    [ i \in 1..Len(kinds) |->
        RawExtraction(i, kinds[i].name, kinds[i].value, kinds[i].conf,
                      kinds[i].page, kinds[i].flags, kinds[i].unit,
                      kinds[i].category) ]

(***************************************************************************)
(* Stage 4: ExtractionConsolidator                                         *)
(***************************************************************************)
\* A page file as glob finds it: unreadable, or a dict that may hold
\* 'extractions'.
PageFile(extractions) == [readable |-> TRUE, extractions |-> Some(extractions)]

\* a page file load_json cannot load (open or json.load raises)
UnreadableFile == [readable |-> FALSE, extractions |-> None]

\* a page file that loads but holds no 'extractions'
FileWithoutExtractions == [readable |-> TRUE, extractions |-> None]

\* what the directory may hold after the well-formed page files: nothing
\* more, or one malformed file
MalformedFiles == { << >>, << UnreadableFile >>, << FileWithoutExtractions >> }

\* the files the loading loop logs an error for
unreadable(files) == SelectSeq(files, LAMBDA f : ~f.readable)

RECURSIVE load_all(_)
\* consolidate(), the loading loop: a file that cannot be loaded is logged and
\* skipped, a file without 'extractions' adds nothing
load_all(files) ==
    IF files = << >> THEN << >>
    ELSE LET f == Head(files)
         IN  (IF f.readable /\ IsSome(f.extractions) THEN f.extractions[1] ELSE << >>)
             \o load_all(Tail(files))

\* key = (kpi_name, fiscal_year)
group_key(extraction) == << extraction.kpi_name, extraction.fiscal_year >>

RECURSIVE group_keys(_, _)
\* the keys of groups (a dict: insertion order = order of first occurrence)
group_keys(extractions, seen) ==
    IF extractions = << >> THEN seen
    ELSE LET k == group_key(Head(extractions))
         IN  group_keys(Tail(extractions),
                        IF k \in Range(seen) THEN seen ELSE Append(seen, k))

\* groups[key]: the extractions of the key, in input order
group_of(extractions, key) == SelectSeq(extractions, LAMBDA e : group_key(e) = key)

\* the last of the largest
best_of_last(group) ==
    LET top == CHOOSE c \in { group[i].confidence : i \in 1..Len(group) } :
                   \A i \in 1..Len(group) : group[i].confidence <= c
        last == CHOOSE i \in 1..Len(group) :
                   /\ group[i].confidence = top
                   /\ \A j \in (i + 1)..Len(group) : group[j].confidence # top
    IN  group[last]

\* max(group, key=lambda x: x.get('confidence', 0)): the first of the largest
best_of(group) ==
    LET top == CHOOSE c \in { group[i].confidence : i \in 1..Len(group) } :
                   \A i \in 1..Len(group) : group[i].confidence <= c
        first == CHOOSE i \in 1..Len(group) :
                   /\ group[i].confidence = top
                   /\ \A j \in 1..(i - 1) : group[j].confidence # top
    IN  group[first]

\* a boost of one twentieth
boost_confidence_small(c) == Min((c * 105) \div 100, One)

\* min(best['confidence'] * 1.1, 1.0)
boost_confidence(c) == Min((c * 110) \div 100, One)

\* sources = [e.get('source', {}).get('page', 'unknown') for e in group]
source_pages(group) == [ i \in 1..Len(group) |-> group[i].source.page ]

\* the same-value branch: boost the best and note the pages
merge_same_value(group) ==
    LET best == best_of(group)
    IN  [ best EXCEPT
            !.confidence = boost_confidence(best.confidence),
            !.extraction_notes =
                Some(Append(Get(best.extraction_notes, << >>),
                            [confirmed_across_pages |-> source_pages(group)])) ]

\* a values list with one entry for every distinct value, the first that has it
conflict_values_distinct(group) ==
    LET firsts == SelectSeq([ i \in 1..Len(group) |-> i ],
                            LAMBDA i : \A j \in 1..(i - 1) :
                                          group[j].value_numeric # group[i].value_numeric)
    IN  [ n \in 1..Len(firsts) |->
            [ value |-> group[firsts[n]].value_numeric,
              source_page |-> group[firsts[n]].source.page,
              confidence |-> group[firsts[n]].confidence ] ]

\* conflict['values']: one entry for every extraction of the group
conflict_values(group) ==
    [ i \in 1..Len(group) |->
        [ value |-> group[i].value_numeric,
          source_page |-> group[i].source.page,
          confidence |-> group[i].confidence ] ]

\* the conflict record of a group with differing values
conflict_record(key, group) ==
    [ kpi_name |-> key[1],
      fiscal_year |-> key[2],
      values |-> conflict_values(group),
      resolution |-> [selected_value |-> best_of(group).value_numeric,
                      why |-> "highest confidence"] ]

\* the best, marked as holding conflicting values only
mark_conflict_unreviewed(group) ==
    LET best == best_of(group)
    IN  [ best EXCEPT !.flags = [present |-> TRUE, conflicting_values |-> TRUE,
                                 needs_review |-> best.flags.present /\ best.flags.needs_review] ]

\* the differing-values branch: the best, marked as needing review
mark_conflict(group) ==
    LET best == best_of(group)
    IN  [ best EXCEPT !.flags = [present |-> TRUE, conflicting_values |-> TRUE,
                                 needs_review |-> TRUE] ]

\* a contribution that boosts and notes a group of one as well
dedup_group_boosting(group) ==
    IF Cardinality({ group[i].value_numeric : i \in 1..Len(group) }) = 1
    THEN merge_same_value(group)
    ELSE mark_conflict(group)

\* what one group contributes to deduplicated
dedup_group(group) ==
    IF Len(group) = 1 THEN group[1]
    ELSE IF Cardinality({ group[i].value_numeric : i \in 1..Len(group) }) = 1
         THEN merge_same_value(group)
         ELSE mark_conflict(group)

\* whether a group is a conflict
is_conflict(group) ==
    /\ Len(group) > 1
    /\ Cardinality({ group[i].value_numeric : i \in 1..Len(group) }) # 1

\* a deduplication that lets every extraction through
_deduplicate_extractions_each(extractions) ==
    [ deduplicated |-> extractions, conflicts |-> << >> ]

_deduplicate_extractions(extractions) ==
    LET keys == group_keys(extractions, << >>)
        conflict_keys == SelectSeq(keys, LAMBDA k : is_conflict(group_of(extractions, k)))
    IN  [ deduplicated |-> [ i \in 1..Len(keys) |-> dedup_group(group_of(extractions, keys[i])) ],
          conflicts |-> [ i \in 1..Len(conflict_keys) |->
                            conflict_record(conflict_keys[i],
                                            group_of(extractions, conflict_keys[i])) ] ]

\* round(x / n, 3) of a sum of thousandths: to the nearest thousandth
round_div(total, n) == (2 * total + n) \div (2 * n)

_calculate_statistics(extractions) ==
    IF extractions = << >> THEN None
    ELSE LET n == Len(extractions)
             confidences == [ i \in 1..n |-> extractions[i].confidence ]
             categories == { extractions[i].kpi_category : i \in 1..n }
             years == { extractions[i].fiscal_year : i \in 1..n }
         IN  Some([ kpis_by_category |->
                        [ c \in categories |-> Len(SelectSeq(extractions, LAMBDA e : e.kpi_category = c)) ],
                    kpis_by_fiscal_year |->
                        [ y \in years |-> Len(SelectSeq(extractions, LAMBDA e : e.fiscal_year = y)) ],
                    average_confidence |-> round_div(SeqSum(confidences), n),
                    high_confidence_count |-> Len(SelectSeq(extractions, LAMBDA e : e.confidence >= 850)),
                    medium_confidence_count |->
                        Len(SelectSeq(extractions, LAMBDA e : 700 <= e.confidence /\ e.confidence < 850)),
                    low_confidence_count |-> Len(SelectSeq(extractions, LAMBDA e : e.confidence < 700)),
                    needs_review_count |->
                        Len(SelectSeq(extractions, LAMBDA e : e.flags.present /\ e.flags.needs_review)) ])

\* consolidate(): the output record
consolidate(files) ==
    LET all_extractions == load_all(files)
        d == _deduplicate_extractions(all_extractions)
    IN  [ document_id |-> "doc",
          total_pages_processed |-> Len(files),
          total_raw_extractions |-> Len(all_extractions),
          total_unique_extractions |-> Len(d.deduplicated),
          extractions |-> d.deduplicated,
          conflicts |-> d.conflicts,
          statistics |-> _calculate_statistics(d.deduplicated) ]

(***************************************************************************)
(* Stage 4.5: GarbageFilter                                                *)
(***************************************************************************)
\* the first prefix of BLACKLIST_PREFIXES the lowered name starts with
first_prefix(kpi_lower) ==
    LET hits == { i \in 1..Len(BLACKLIST_PREFIXES) : startswith(kpi_lower, BLACKLIST_PREFIXES[i]) }
    IN  IF hits = {} THEN None
        ELSE Some(BLACKLIST_PREFIXES[CHOOSE i \in hits : \A j \in hits : i <= j])

\* a unit check that accepts whitelist entries only
_is_valid_unit_exact(unit) ==
    IF unit = << >> \/ strip(unit) = << >> THEN FALSE
    ELSE strip(lower(unit)) \in Range(VALID_UNITS)

_is_valid_unit(unit) ==
    IF unit = << >> \/ strip(unit) = << >> THEN FALSE
    ELSE LET unit_lower == strip(lower(unit))
         IN  \/ unit_lower \in Range(VALID_UNITS)
             \/ \E i \in 1..Len(VALID_UNITS) : contains(unit_lower, VALID_UNITS[i])

\* (is_valid, reason)
_validate_extraction(extraction) ==
    LET kpi_name == extraction.kpi_name
        kpi_lower == lower(kpi_name)
        Reject(reason) == [is_valid |-> FALSE, reason |-> reason]
    IN  IF Len(kpi_name) > 50 THEN Reject(<< "name_too_long" >>)
        ELSE IF Len(kpi_name) < 3 THEN Reject(<< "name_too_short" >>)
        ELSE IF IsSome(first_prefix(kpi_lower))
             THEN Reject(<< "blacklist_prefix_", first_prefix(kpi_lower)[1] >>)
        ELSE IF \E i \in 1..Len(BLACKLIST_CONTAINS) : contains(kpi_lower, BLACKLIST_CONTAINS[i])
             THEN Reject(<< "blacklist_contains" >>)
        ELSE IF re_match_number(kpi_name) THEN Reject(<< "just_a_number" >>)
        ELSE IF /\ extraction.value_numeric = None
                /\ ~(extraction.kpi_category = "forward_looking"
                     \/ extraction.kpi_category = "governance")
             THEN Reject(<< "no_numeric_value" >>)
        ELSE IF ~_is_valid_unit(extraction.unit) THEN Reject(<< "invalid_unit" >>)
        ELSE IF extraction.confidence < 500 THEN Reject(<< "low_confidence" >>)
        ELSE [is_valid |-> TRUE, reason |-> None]

\* filter_extractions() raises: the percentages of its log lines divide by
\* len(self.extractions)
filter_raises(extractions) == extractions = << >>

\* a filter that retains every extraction
filter_extractions_lenient(extractions) ==
    [ filtered |-> extractions, discarded |-> << >> ]

\* filter_extractions(): (filtered, discarded)
filter_extractions(extractions) ==
    LET kept == SelectSeq(extractions, LAMBDA e : _validate_extraction(e).is_valid)
        dropped == SelectSeq(extractions, LAMBDA e : ~_validate_extraction(e).is_valid)
    IN  [ filtered |-> kept,
          discarded |-> [ i \in 1..Len(dropped) |->
                            [ extraction |-> dropped[i],
                              reason |-> _validate_extraction(dropped[i]).reason ] ] ]

\* one entry of output['discarded']
discard_record(d) == [ kpi_name |-> d.extraction.kpi_name, reason |-> d.reason ]

\* ExtractionConsolidator.__init__ raises: os.path.basename(extractions_dir)
\* is a TypeError when extractions_dir is None
consolidator_raises(extractions_dir) == extractions_dir = None

\* build_output(filtered, discarded): the output record, or None where the
\* call raises.  It builds its statistics with ExtractionConsolidator(None).
build_output(data, filtered, discarded) ==
    IF consolidator_raises(None) THEN None
    ELSE Some([ document_id |-> data.document_id,
                total_before_filtering |-> Len(data.extractions),
                total_after_filtering |-> Len(filtered),
                total_discarded |-> Len(discarded),
                discard_rate |-> IF data.extractions # << >>
                                 THEN round_div(Len(discarded) * 1000, Len(data.extractions))
                                 ELSE 0,
                extractions |-> filtered,
                discarded |-> [ i \in 1..Len(discarded) |-> discard_record(discarded[i]) ],
                statistics |-> _calculate_statistics(filtered) ])

(***************************************************************************)
(* Stage 5: SelfVerifier (Gemini) and VastSelfVerifier                     *)
(***************************************************************************)
RECURSIVE page_order(_, _)
\* the keys of _group_by_page()'s dict: pages in order of first occurrence
page_order(extractions, seen) ==
    IF extractions = << >> THEN seen
    ELSE LET p == Head(extractions).source.page
         IN  page_order(Tail(extractions),
                        IF p \in Range(seen) THEN seen ELSE Append(seen, p))

\* every extraction, whatever its page
page_extractions_all(extractions, page) == extractions

\* extractions_by_page[page]
page_extractions(extractions, page) ==
    SelectSeq(extractions, LAMBDA e : e.source.page = page)

\* What the verification oracle may say about one extraction.  An absent
\* status, an unknown status, an absent confidence, a confidence out of [0,1]
\* and a null corrected_value are all replies the code accepts.
VerifyAnswers ==
    { [status |-> Some("CONFIRMED"), corrected_value |-> None,
       verification_confidence |-> Some(950), reasoning |-> Some("ok")],
      [status |-> None, corrected_value |-> None,
       verification_confidence |-> None, reasoning |-> None],
      [status |-> Some("CORRECTED"), corrected_value |-> Some(16000),
       verification_confidence |-> None, reasoning |-> None],
      [status |-> Some("CORRECTED"), corrected_value |-> Some(16000),
       verification_confidence |-> Some(300), reasoning |-> Some("misread")],
      [status |-> Some("CORRECTED"), corrected_value |-> None,
       verification_confidence |-> Some(1500), reasoning |-> Some("misread")],
      [status |-> Some("FLAGGED"), corrected_value |-> None,
       verification_confidence |-> Some(400), reasoning |-> Some("unclear")],
      [status |-> Some("REJECTED"), corrected_value |-> None,
       verification_confidence |-> None, reasoning |-> None] }

\* one entry of the reply's 'corrections'
Correction(id, a) ==
    [ extraction_id |-> id, status |-> a.status, corrected_value |-> a.corrected_value,
      verification_confidence |-> a.verification_confidence, reasoning |-> a.reasoning ]

\* The longest 'corrections' list the oracle returns in the model.
MaxCorrections == 2

\* the 'corrections' lists the oracle may return when asked about a page
CorrectionLists(ids) ==
    LET one == { Correction(id, a) : id \in ids, a \in VerifyAnswers }
    IN  UNION { [ 1..n -> one ] : n \in 0..MaxCorrections }

\* corrections_map: extraction_id -> correction, a later entry replacing an
\* earlier one of the same id
corrections_map(corrections) ==
    [ id \in { corrections[i].extraction_id : i \in 1..Len(corrections) } |->
        corrections[CHOOSE i \in 1..Len(corrections) :
                        /\ corrections[i].extraction_id = id
                        /\ \A j \in (i + 1)..Len(corrections) :
                               corrections[j].extraction_id # id] ]

\* a confirmation that discounts the confidence instead of raising it
confirm_confidence_discounting(c) == Min((c * 95) \div 100, One)

\* min(extraction['confidence'] * 1.05, 1.0)
confirm_confidence(c) == Min((c * 105) \div 100, One)

Note(text, from, to, reasoning) ==
    [ text |-> text, from |-> from, to |-> to, reasoning |-> reasoning ]

\* status == 'CONFIRMED'
apply_confirmed(extraction, correction) ==
    [ extraction EXCEPT
        !.confidence = confirm_confidence(extraction.confidence),
        !.verification_status = Some("CONFIRMED"),
        !.verification_confidence = Some(Get(correction.verification_confidence, One)),
        !.verification_notes =
            Some(Note(Get(correction.reasoning, "Verified in self-review"), None, None, "")) ]

\* a correction that leaves the display value as it was
apply_corrected_numeric_only(extraction, correction) ==
    [ extraction EXCEPT
        !.value_numeric = correction.corrected_value,
        !.confidence = Get(correction.verification_confidence, 900),
        !.verification_status = Some("CORRECTED"),
        !.verification_confidence = Some(Get(correction.verification_confidence, 900)),
        !.verification_notes =
            Some(Note("Corrected from {original_value} to {corrected_value}: {reasoning}",
                      extraction.value_numeric, correction.corrected_value,
                      Get(correction.reasoning, ""))) ]

\* status == 'CORRECTED'
apply_corrected(extraction, correction) ==
    [ extraction EXCEPT
        !.value_numeric = correction.corrected_value,
        !.value_actual = correction.corrected_value,
        !.confidence = Get(correction.verification_confidence, 900),
        !.verification_status = Some("CORRECTED"),
        !.verification_confidence = Some(Get(correction.verification_confidence, 900)),
        !.verification_notes =
            Some(Note("Corrected from {original_value} to {corrected_value}: {reasoning}",
                      extraction.value_numeric, correction.corrected_value,
                      Get(correction.reasoning, ""))) ]

\* status == 'FLAGGED'
apply_flagged(extraction, correction) ==
    [ extraction EXCEPT
        !.verification_status = Some("FLAGGED"),
        !.verification_confidence = Some(Get(correction.verification_confidence, 500)),
        !.verification_notes =
            Some(Note(Get(correction.reasoning, "Flagged in self-review"), None, None, "")),
        !.flags = [ @ EXCEPT !.present = TRUE, !.needs_review = TRUE ] ]

\* a default that confirms with the boost of an explicit confirmation
apply_default_boosting(extraction) ==
    [ extraction EXCEPT
        !.confidence = confirm_confidence(extraction.confidence),
        !.verification_status = Some("CONFIRMED"),
        !.verification_confidence = Some(extraction.confidence) ]

\* no correction names the extraction: confirmed by default
apply_default(extraction) ==
    [ extraction EXCEPT
        !.verification_status = Some("CONFIRMED"),
        !.verification_confidence = Some(extraction.confidence) ]

\* the body of _apply_corrections' loop, for one extraction
apply_one(extraction, cmap) ==
    IF extraction.extraction_id \in DOMAIN cmap
    THEN LET correction == cmap[extraction.extraction_id]
             status == Get(correction.status, "CONFIRMED")
         IN  CASE status = "CONFIRMED" -> apply_confirmed(extraction, correction)
               [] status = "CORRECTED" -> apply_corrected(extraction, correction)
               [] status = "FLAGGED" -> apply_flagged(extraction, correction)
               [] OTHER -> extraction
    ELSE apply_default(extraction)

\* _apply_corrections(extractions, verification_result)
_apply_corrections(extractions, verification_result) ==
    LET cmap == corrections_map(verification_result.corrections)
    IN  [ i \in 1..Len(extractions) |-> apply_one(extractions[i], cmap) ]

\* What a call of the verification oracle can meet:
\*   reply       a JSON object was returned (with its 'corrections')
\*   call_failed the oracle is unreachable, times out, or its text is no JSON
\*   bad_status  (Vast) the HTTP status is not 200
\*   bad_schema  the JSON returned is no object (a list, a number)
CallKinds(v) ==
    IF v = "gemini" THEN { "reply", "call_failed", "bad_schema" }
    ELSE { "reply", "call_failed", "bad_status", "bad_schema" }

\* SelfVerifier._call_verification_llm: an exception gives an empty
\* verification; a reply that is no dict makes _apply_corrections raise
gemini_verify_page(extractions, r) ==
    IF ~r.image THEN [verified |-> extractions, raised |-> FALSE]
    ELSE IF r.kind = "call_failed"
         THEN [verified |-> _apply_corrections(extractions, [corrections |-> << >>]),
               raised |-> FALSE]
    ELSE IF r.kind = "bad_schema" THEN [verified |-> extractions, raised |-> TRUE]
    ELSE [verified |-> _apply_corrections(extractions, [corrections |-> r.corrections]),
          raised |-> FALSE]

\* VastSelfVerifier._verify_page: every failure returns the extractions
vast_verify_page(extractions, r) ==
    IF ~r.image THEN [verified |-> extractions, raised |-> FALSE]
    ELSE IF r.kind = "reply"
         THEN [verified |-> _apply_corrections(extractions, [corrections |-> r.corrections]),
               raised |-> FALSE]
    ELSE [verified |-> extractions, raised |-> FALSE]

_verify_page(v, extractions, r) ==
    IF v = "gemini" THEN gemini_verify_page(extractions, r)
    ELSE vast_verify_page(extractions, r)

HasStatus(e, s) == e.verification_status = Some(s)

\* a stats update that counts every extraction of the page as confirmed
count_statuses_every(st, verified) ==
    [ st EXCEPT !.confirmed = @ + Len(verified) ]

\* the stats update of verify_all's loop body
count_statuses(st, verified) ==
    [ confirmed |-> st.confirmed + Len(SelectSeq(verified, LAMBDA e : HasStatus(e, "CONFIRMED"))),
      corrected |-> st.corrected + Len(SelectSeq(verified, LAMBDA e : HasStatus(e, "CORRECTED"))),
      flagged |-> st.flagged + Len(SelectSeq(verified, LAMBDA e : HasStatus(e, "FLAGGED"))) ]

\* the reply as the page's extractions see it: the corrections that name one
\* of them, one per id, in the order of the ids
RECURSIVE map_as_list(_)
map_as_list(cmap) ==
    IF DOMAIN cmap = {} THEN << >>
    ELSE LET id == CHOOSE i \in DOMAIN cmap : \A j \in DOMAIN cmap : i <= j
         IN  << cmap[id] >> \o map_as_list([ k \in DOMAIN cmap \ {id} |-> cmap[k] ])

effective_reply(extractions, r) ==
    LET cmap == corrections_map(r.corrections)
        ids == { extractions[i].extraction_id : i \in 1..Len(extractions) }
    IN  [ r EXCEPT !.corrections =
            IF r.image /\ r.kind = "reply"
            THEN map_as_list([ id \in DOMAIN cmap \cap ids |-> cmap[id] ])
            ELSE << >> ]

\* stage 5's output record
verified_output(data, verified, st) ==
    [ document_id |-> data.document_id,
      total_extractions |-> Len(verified),
      verification_stats |-> st,
      extractions |-> verified ]

(***************************************************************************)
(* Stage 6: GeminiReviewer                                                 *)
(***************************************************************************)
\* confidence_threshold=0.70
confidence_threshold == 700

\* criteria whose threshold takes in the confidence equal to it
needs_gemini_review_inclusive(extraction) ==
    \/ extraction.flags.present /\ extraction.flags.needs_review
    \/ extraction.verification_status = Some("FLAGGED")
    \/ extraction.confidence <= confidence_threshold

\* the three criteria of _identify_review_items
needs_gemini_review(extraction) ==
    \/ extraction.flags.present /\ extraction.flags.needs_review
    \/ extraction.verification_status = Some("FLAGGED")
    \/ extraction.confidence < confidence_threshold

_identify_review_items(extractions) ==
    SelectSeq(extractions, needs_gemini_review)

\* What the review oracle may say about one extraction.
ReviewAnswers ==
    { [review_decision |-> Some("CORRECT"), corrected_value |-> None,
       gemini_confidence |-> None, reasoning |-> Some("matches the page")],
      [review_decision |-> Some("CORRECT"), corrected_value |-> None,
       gemini_confidence |-> Some(300), reasoning |-> None],
      [review_decision |-> Some("INCORRECT"), corrected_value |-> Some(16000),
       gemini_confidence |-> None, reasoning |-> Some("wrong column")],
      [review_decision |-> Some("INCORRECT"), corrected_value |-> Some(16000),
       gemini_confidence |-> Some(1500), reasoning |-> None],
      [review_decision |-> Some("AMBIGUOUS"), corrected_value |-> None,
       gemini_confidence |-> None, reasoning |-> Some("footnote missing")] }

\* What a call of the review oracle can meet (see CallKinds).
ReviewKinds == { "reply", "call_failed", "bad_schema" }

\* _review_extraction and _call_gemini: a missing image and a failed call both
\* come back as an AMBIGUOUS review; a reply that is no dict comes back as it is
_review_extraction(r) ==
    IF ~r.image
    THEN [ is_dict |-> TRUE, review_decision |-> Some("AMBIGUOUS"), corrected_value |-> None,
           gemini_confidence |-> None, reasoning |-> None ]
    ELSE IF r.kind = "call_failed"
    THEN [ is_dict |-> TRUE, review_decision |-> Some("AMBIGUOUS"), corrected_value |-> None,
           gemini_confidence |-> None, reasoning |-> Some("str(e)") ]
    ELSE IF r.kind = "bad_schema"
    THEN [ is_dict |-> FALSE, review_decision |-> None, corrected_value |-> None,
           gemini_confidence |-> None, reasoning |-> None ]
    ELSE [ is_dict |-> TRUE, review_decision |-> r.answer[1].review_decision,
           corrected_value |-> r.answer[1].corrected_value,
           gemini_confidence |-> r.answer[1].gemini_confidence,
           reasoning |-> r.answer[1].reasoning ]

\* decision = review.get('review_decision', 'AMBIGUOUS')
decision_of(review) == Get(review.review_decision, "AMBIGUOUS")

\* the stats update of review_all's loop body; reading a review that is no
\* dict raises, and the except clause skips the update
count_decision(st, review) ==
    IF ~review.is_dict THEN st
    ELSE IF decision_of(review) = "CORRECT" THEN [ st EXCEPT !.confirmed = @ + 1 ]
    ELSE IF decision_of(review) = "INCORRECT" THEN [ st EXCEPT !.corrected = @ + 1 ]
    ELSE [ st EXCEPT !.still_ambiguous = @ + 1 ]

\* a CORRECT branch that leaves the flag as it was
review_correct_unresolved(extraction, review) ==
    [ extraction EXCEPT
        !.gemini_reviewed = Some(TRUE),
        !.gemini_decision = Some("CONFIRMED"),
        !.confidence = Get(review.gemini_confidence, 950),
        !.gemini_notes =
            Some(Note(Get(review.reasoning, "Confirmed by Gemini"), None, None, "")) ]

\* decision == 'CORRECT'
review_correct(extraction, review) ==
    [ extraction EXCEPT
        !.gemini_reviewed = Some(TRUE),
        !.gemini_decision = Some("CONFIRMED"),
        !.confidence = Get(review.gemini_confidence, 950),
        !.flags = [ @ EXCEPT !.needs_review = FALSE ],
        !.gemini_notes =
            Some(Note(Get(review.reasoning, "Confirmed by Gemini"), None, None, "")) ]

\* decision == 'INCORRECT'
review_incorrect(extraction, review) ==
    [ extraction EXCEPT
        !.gemini_reviewed = Some(TRUE),
        !.gemini_decision = Some("CORRECTED"),
        !.value_numeric = review.corrected_value,
        !.value_actual = review.corrected_value,
        !.confidence = Get(review.gemini_confidence, 900),
        !.flags = [ @ EXCEPT !.needs_review = FALSE ],
        !.gemini_notes =
            Some(Note("Corrected by Gemini: {reasoning}", None, None,
                      Get(review.reasoning, ""))) ]

\* an AMBIGUOUS branch that clears the flag
review_ambiguous_clearing(extraction, review) ==
    [ extraction EXCEPT
        !.gemini_reviewed = Some(TRUE),
        !.gemini_decision = Some("AMBIGUOUS"),
        !.flags = [ @ EXCEPT !.needs_review = FALSE ],
        !.review_tier = Some("manual"),
        !.gemini_notes =
            Some(Note("Could not resolve: {reasoning}", None, None,
                      Get(review.reasoning, ""))) ]

\* else: AMBIGUOUS
review_ambiguous(extraction, review) ==
    [ extraction EXCEPT
        !.gemini_reviewed = Some(TRUE),
        !.gemini_decision = Some("AMBIGUOUS"),
        !.flags = [ @ EXCEPT !.needs_review = TRUE ],
        !.review_tier = Some("manual"),
        !.gemini_notes =
            Some(Note("Could not resolve: {reasoning}", None, None,
                      Get(review.reasoning, ""))) ]

\* the body of _apply_reviews' loop, for one extraction
review_one(extraction, rmap) ==
    IF extraction.extraction_id \in DOMAIN rmap
    THEN LET review == rmap[extraction.extraction_id]
         IN  CASE decision_of(review) = "CORRECT" -> review_correct(extraction, review)
               [] decision_of(review) = "INCORRECT" -> review_incorrect(extraction, review)
               [] OTHER -> review_ambiguous(extraction, review)
    ELSE extraction

\* Whether _apply_reviews raises: review.get on a review that is no dict
\* (AttributeError), or extraction['flags'] on an extraction that has no
\* 'flags' key (KeyError).  Nothing catches either.
apply_reviews_raises(extractions, rmap) ==
    \E i \in 1..Len(extractions) :
        /\ extractions[i].extraction_id \in DOMAIN rmap
        /\ \/ ~rmap[extractions[i].extraction_id].is_dict
           \/ ~extractions[i].flags.present

_apply_reviews(extractions, rmap) ==
    [ i \in 1..Len(extractions) |-> review_one(extractions[i], rmap) ]

\* an output built anew from the extractions, as after review_all
passthrough_output_rebuilt(data) ==
    [ document_id |-> data.document_id,
      total_extractions |-> Len(data.extractions),
      gemini_review_stats |-> [total_reviewed |-> 0],
      extractions |-> data.extractions ]

\* main's output when nothing needs review: the input with one key added
passthrough_output(data) ==
    [ k \in DOMAIN data \cup { "gemini_review_stats" } |->
        IF k = "gemini_review_stats" THEN [total_reviewed |-> 0] ELSE data[k] ]

\* main's output after review_all
reviewed_output(data, final_extractions, st) ==
    [ document_id |-> data.document_id,
      total_extractions |-> Len(final_extractions),
      gemini_review_stats |-> st,
      extractions |-> final_extractions ]

(***************************************************************************)
(* The pipeline                                                            *)
(***************************************************************************)
\* How often stage 5, and stage 6, may be started in one behaviour.  A stage
\* started again runs on its own output and the oracle repeats the answers
\* of the first run.
MaxRuns == 2

NoArtifact == [document_id |-> "doc"]

\* the directory stage 4 is given: its name is the document id
ExtractionsDir(files) == [document_id |-> "doc", files |-> files]
NoStats == [confirmed |-> 0, corrected |-> 0, flagged |-> 0]

\* a line the stage logs: logger.warning, logger.error, or the traceback of
\* an exception nothing catches (fatal); page is the page the line names
LogEntry(stage, level, message, page) ==
    [ stage |-> stage, level |-> level, message |-> message, page |-> page ]

Init ==
    /\ artifact \in
           { ExtractionsDir([ i \in 1..Len(kinds) |-> PageFile(<< MakeRaw(kinds)[i] >>) ]
                            \o malformed) :
               kinds \in RawLists, malformed \in MalformedFiles }
    /\ pc = "raw"
    /\ input = NoArtifact
    /\ variant = "none"
    /\ todo = << >>
    /\ verified_extractions = << >>
    /\ stats = NoStats
    /\ reviewed_map = << >>
    /\ replies = [verify |-> << >>, review |-> << >>]
    /\ runs = [verify |-> 0, review |-> 0]
    /\ log = << >>
    /\ filter_result = None
    /\ instance = "none"

\* stage4_consolidate.main
Consolidate ==
    /\ UNCHANGED << filter_result, instance >>
    /\ pc = "raw"
    /\ input' = artifact
    /\ artifact' = consolidate(artifact.files)
    /\ pc' = "consolidated"
    /\ log' = [ i \in 1..Len(unreadable(artifact.files)) |->
                  LogEntry("consolidate", "error", "Error loading", None) ]
              \o (IF load_all(artifact.files) = << >>
                  THEN \* saved; then main's log line reads statistics['average_confidence']
                       << LogEntry("consolidate", "fatal", "KeyError", None) >>
                  ELSE << >>)
    /\ UNCHANGED << variant, todo, verified_extractions, stats,
                    reviewed_map, replies, runs >>

\* stage4_5_filter_garbage.main: filter_extractions, build_output, save_json.
\* An exception of either call ends the stage before anything is saved.
Filter ==
    /\ pc = "consolidated"
    /\ input' = artifact
    /\ IF filter_raises(artifact.extractions)
       THEN /\ pc' = "aborted"
            /\ log' = << LogEntry("filter", "fatal", "ZeroDivisionError", None) >>
            /\ filter_result' = None
            /\ UNCHANGED artifact
       ELSE LET f == filter_extractions(artifact.extractions)
                output == build_output(artifact, f.filtered, f.discarded)
            IN  /\ filter_result' = Some(f)
                /\ IF output = None
                   THEN /\ pc' = "aborted"
                        /\ log' = << LogEntry("filter", "fatal", "TypeError", None) >>
                        /\ UNCHANGED artifact
                   ELSE /\ artifact' = output[1]
                        /\ pc' = "filtered"
                        /\ log' = << >>
    /\ UNCHANGED << variant, todo, verified_extractions, stats,
                    reviewed_map, replies, runs, instance >>

\* VastManager.launch_for_stage5: no offer is found or the request that
\* creates the instance fails ("not_created"); the instance is created and
\* wait_for_instance returns its description ("ready"); the instance is
\* created and wait_for_instance raises TimeoutError ("not_ready")
LaunchOutcomes == { "ready", "not_created", "not_ready" }

\* VastManager.launch_instance: whether the instance exists once the launch
\* has returned or raised
launch_instance(launch, inst) ==
    IF launch \in { "ready", "not_ready" } THEN "running" ELSE inst

\* VastSelfVerifier._destroy_instance: the instance is destroyed if
\* instance_info is set
_destroy_instance(instance_info, inst) ==
    IF instance_info THEN "none" ELSE inst

\* stage 5, the constructor and the start of verify_all; the Vast variant
\* launches its instance first, and a failed launch ends the stage.  The
\* stage loads the artifact its filtered_path names and reads document_id
\* and extractions of it: the output of stage 4, of stage 4.5, or its own.
VerifyStart(v) ==
    /\ UNCHANGED filter_result
    /\ pc \in { "consolidated", "filtered", "verified" }
    /\ pc = "verified" => v = variant
    /\ runs.verify < MaxRuns
    /\ runs' = [ runs EXCEPT !.verify = @ + 1 ]
    /\ input' = artifact
    /\ variant' = v
    /\ verified_extractions' = << >>
    /\ stats' = NoStats
    /\ \E launch \in (IF v = "vast" THEN LaunchOutcomes ELSE { "no_launch" }) :
          IF launch \in { "ready", "no_launch" }
          THEN /\ pc' = "verifying"
               /\ todo' = page_order(artifact.extractions, << >>)
               /\ log' = << >>
               /\ instance' = launch_instance(launch, instance)
          ELSE \* launch_for_stage5 raised, so instance_info was not assigned
               \* and the finally clause's _destroy_instance does nothing
               /\ pc' = "aborted"
               /\ todo' = << >>
               /\ log' = << LogEntry("verify", "fatal", "launch failed", None) >>
               /\ instance' = _destroy_instance(FALSE, launch_instance(launch, instance))
    /\ UNCHANGED << artifact, reviewed_map, replies >>

\* the replies the verification oracle may give for a page
VerifyReplies(v, ids) ==
    { [image |-> FALSE, kind |-> "no_call", corrections |-> << >>] }
    \cup { [image |-> TRUE, kind |-> k, corrections |-> << >>] : k \in CallKinds(v) \ { "reply" } }
    \cup { [image |-> TRUE, kind |-> "reply", corrections |-> c] : c \in CorrectionLists(ids) }

\* what the stage logs about a page that was not verified
verify_log(page, r, result) ==
    IF ~r.image THEN << LogEntry("verify", "warning", "Image not found", Some(page)) >>
    ELSE IF r.kind = "reply" THEN << >>
    ELSE IF result.raised
         THEN << LogEntry("verify", "error", "Error verifying page", Some(page)) >>
    ELSE << LogEntry("verify", "error", r.kind, None) >>

\* one iteration of verify_all's (resp. _process_all_pages') loop
VerifyPage ==
    /\ UNCHANGED << filter_result, instance >>
    /\ pc = "verifying"
    /\ todo # << >>
    /\ LET page == Head(todo)
           mine == page_extractions(input.extractions, page)
           ids == { input.extractions[i].extraction_id : i \in 1..Len(input.extractions) }
       IN  \E r \in (IF page \in DOMAIN replies.verify
                     THEN { replies.verify[page] }
                     ELSE VerifyReplies(variant, ids)) :
             LET result == _verify_page(variant, mine, r)
             IN  /\ verified_extractions' = verified_extractions \o result.verified
                 /\ stats' = IF result.raised THEN stats
                             ELSE count_statuses(stats, result.verified)
                 /\ replies' = [ replies EXCEPT !.verify =
                                   (page :> effective_reply(mine, r)) @@ @ ]
                 /\ log' = log \o verify_log(page, r, result)
    /\ todo' = Tail(todo)
    /\ UNCHANGED << pc, artifact, input, variant, reviewed_map, runs >>

\* stage 5, the end of verify_all (on Vast its finally clause, with
\* instance_info set by the launch) and main after it: the output is saved, then the correction
\* rate is logged, which divides by the number of extractions (so with none
\* the stage ends in an error, its output saved)
VerifyFinish ==
    /\ UNCHANGED filter_result
    /\ instance' = _destroy_instance(variant = "vast", instance)
    /\ pc = "verifying"
    /\ todo = << >>
    /\ artifact' = verified_output(input, verified_extractions, stats)
    /\ pc' = "verified"
    /\ log' = IF verified_extractions = << >>
              THEN Append(log, LogEntry("verify", "fatal", "ZeroDivisionError", None))
              ELSE log
    /\ UNCHANGED << input, variant, todo, verified_extractions, stats,
                    reviewed_map, replies, runs >>

NoReviewStats == [total_reviewed |-> 0]

\* stage 6, the constructor and main's branch: nothing to review passes the
\* input through, otherwise review_all starts
ReviewStart ==
    /\ UNCHANGED << filter_result, instance >>
    /\ pc \in { "verified", "reviewed" }
    /\ runs.review < MaxRuns
    /\ runs' = [ runs EXCEPT !.review = @ + 1 ]
    /\ input' = artifact
    /\ reviewed_map' = << >>
    /\ log' = << >>
    /\ variant' = "none"
    /\ verified_extractions' = << >>
    /\ replies' = [ replies EXCEPT !.verify = << >> ]
    /\ LET needs_review == _identify_review_items(artifact.extractions)
       IN  IF needs_review = << >>
           THEN /\ artifact' = passthrough_output(artifact)
                /\ pc' = "reviewed"
                /\ todo' = << >>
                /\ stats' = NoReviewStats
           ELSE /\ pc' = "reviewing"
                /\ todo' = [ i \in 1..Len(needs_review) |-> needs_review[i].extraction_id ]
                /\ stats' = [ total_reviewed |-> Len(needs_review), confirmed |-> 0,
                              corrected |-> 0, still_ambiguous |-> 0 ]
                /\ UNCHANGED artifact

\* the replies the review oracle may give for an extraction
ReviewReplies ==
    { [image |-> FALSE, kind |-> "no_call", answer |-> None] }
    \cup { [image |-> TRUE, kind |-> k, answer |-> None] : k \in ReviewKinds \ { "reply" } }
    \cup { [image |-> TRUE, kind |-> "reply", answer |-> Some(a)] : a \in ReviewAnswers }

\* what the stage logs about a review that failed
review_log(id, r) ==
    IF ~r.image THEN << LogEntry("review", "warning", "Image not found for review", None) >>
    ELSE IF r.kind = "call_failed" THEN << LogEntry("review", "error", "Gemini API error", None) >>
    ELSE IF r.kind = "bad_schema"
         THEN << LogEntry("review", "error", "Error reviewing extraction", None) >>
    ELSE << >>

\* one iteration of review_all's loop
ReviewOne ==
    /\ UNCHANGED << filter_result, instance >>
    /\ pc = "reviewing"
    /\ todo # << >>
    /\ LET id == Head(todo)
       IN  \E r \in (IF id \in DOMAIN replies.review
                     THEN { replies.review[id] }
                     ELSE ReviewReplies) :
             LET review == _review_extraction(r)
             IN  /\ reviewed_map' = (id :> review) @@ reviewed_map
                 /\ stats' = count_decision(stats, review)
                 /\ replies' = [ replies EXCEPT !.review = (id :> r) @@ @ ]
                 /\ log' = log \o review_log(id, r)
    /\ todo' = Tail(todo)
    /\ UNCHANGED << pc, artifact, input, variant, verified_extractions, runs >>

\* the end of review_all and of main: _apply_reviews, then the output is
\* saved; an exception of _apply_reviews ends the stage without an output
ReviewFinish ==
    /\ UNCHANGED << filter_result, instance >>
    /\ pc = "reviewing"
    /\ todo = << >>
    /\ IF apply_reviews_raises(input.extractions, reviewed_map)
       THEN /\ pc' = "aborted"
            /\ log' = Append(log, LogEntry("review", "fatal", "uncaught exception", None))
            /\ UNCHANGED artifact
       ELSE /\ pc' = "reviewed"
            /\ artifact' = reviewed_output(input, _apply_reviews(input.extractions, reviewed_map),
                                           stats)
            /\ UNCHANGED log
    /\ UNCHANGED << input, variant, todo, verified_extractions, stats,
                    reviewed_map, replies, runs >>

Next ==
    \/ Consolidate
    \/ Filter
    \/ \E v \in { "gemini", "vast" } : VerifyStart(v)
    \/ VerifyPage
    \/ VerifyFinish
    \/ ReviewStart
    \/ ReviewOne
    \/ ReviewFinish

Spec == Init /\ [][Next]_vars

(***************************************************************************)
(* Stages 4 and 4.5 alone, on the inputs that exercise the filter's rules  *)
(***************************************************************************)
FilterInit ==
    /\ artifact \in
           { ExtractionsDir([ i \in 1..Len(kinds) |-> PageFile(<< MakeRaw(kinds)[i] >>) ]) :
               kinds \in FilterLists }
    /\ pc = "raw"
    /\ input = NoArtifact
    /\ variant = "none"
    /\ todo = << >>
    /\ verified_extractions = << >>
    /\ stats = NoStats
    /\ reviewed_map = << >>
    /\ replies = [verify |-> << >>, review |-> << >>]
    /\ runs = [verify |-> 0, review |-> 0]
    /\ log = << >>
    /\ filter_result = None
    /\ instance = "none"

FilterNext ==
    \/ Consolidate
    \/ Filter

FilterSpec == FilterInit /\ [][FilterNext]_vars

(***************************************************************************)
(* Stages 4 to 6 run once each, with the pages of stage 5 and the          *)
(* extractions of stage 6 taken in any order                               *)
(***************************************************************************)
OrderInit ==
    /\ artifact \in
           { ExtractionsDir([ i \in 1..Len(kinds) |-> PageFile(<< MakeRaw(kinds)[i] >>) ]) :
               kinds \in RawLists }
    /\ pc = "raw"
    /\ input = NoArtifact
    /\ variant = "none"
    /\ todo = << >>
    /\ verified_extractions = << >>
    /\ stats = NoStats
    /\ reviewed_map = << >>
    /\ replies = [verify |-> << >>, review |-> << >>]
    /\ runs = [verify |-> MaxRuns - 1, review |-> MaxRuns - 1]
    /\ log = << >>
    /\ filter_result = None
    /\ instance = "none"

\* the loop body of verify_all for any page that is left; the reply is kept
\* with the ids it named that are not of the page it was given for
VerifyAnyPage ==
    /\ UNCHANGED << filter_result, instance >>
    /\ pc = "verifying"
    /\ \E n \in 1..Len(todo) :
         LET page == todo[n]
             mine == page_extractions(input.extractions, page)
             ids == { input.extractions[i].extraction_id : i \in 1..Len(input.extractions) }
         IN  /\ \E r \in VerifyReplies(variant, ids) :
                  LET result == _verify_page(variant, mine, r)
                      kept == effective_reply(mine, r)
                  IN  /\ verified_extractions' = verified_extractions \o result.verified
                      /\ stats' = IF result.raised THEN stats
                                  ELSE count_statuses(stats, result.verified)
                      /\ replies' = [ replies EXCEPT !.verify =
                                        (page :> [ image |-> kept.image, kind |-> kept.kind,
                                                   corrections |-> kept.corrections,
                                                   others |->
                                                     { r.corrections[i].extraction_id :
                                                         i \in 1..Len(r.corrections) }
                                                     \ { mine[i].extraction_id :
                                                           i \in 1..Len(mine) } ]) @@ @ ]
                      /\ log' = log \o verify_log(page, r, result)
             /\ todo' = SubSeq(todo, 1, n - 1) \o SubSeq(todo, n + 1, Len(todo))
    /\ UNCHANGED << pc, artifact, input, variant, reviewed_map, runs >>

\* the loop body of review_all for any extraction that is left
ReviewAny ==
    /\ UNCHANGED << filter_result, instance >>
    /\ pc = "reviewing"
    /\ \E n \in 1..Len(todo) :
         LET id == todo[n]
         IN  /\ \E r \in ReviewReplies :
                  LET review == _review_extraction(r)
                  IN  /\ reviewed_map' = (id :> review) @@ reviewed_map
                      /\ stats' = count_decision(stats, review)
                      /\ replies' = [ replies EXCEPT !.review = (id :> r) @@ @ ]
                      /\ log' = log \o review_log(id, r)
             /\ todo' = SubSeq(todo, 1, n - 1) \o SubSeq(todo, n + 1, Len(todo))
    /\ UNCHANGED << pc, artifact, input, variant, verified_extractions, runs >>

OrderNext ==
    \/ Consolidate
    \/ \E v \in { "gemini", "vast" } : VerifyStart(v)
    \/ VerifyAnyPage
    \/ VerifyFinish
    \/ ReviewStart
    \/ ReviewAny
    \/ ReviewFinish

OrderSpec == OrderInit /\ [][OrderNext]_vars

(***************************************************************************)
(* Properties                                                              *)
(***************************************************************************)
\* the extraction of the given id in a list (ids are unique in a list)
by_id(extractions, id) ==
    extractions[CHOOSE i \in 1..Len(extractions) : extractions[i].extraction_id = id]

ids_of(extractions) == { extractions[i].extraction_id : i \in 1..Len(extractions) }

\* a stage 5 page, or a stage 6 extraction, whose oracle call failed or whose
\* page image is missing
CallFailed(r) == ~r.image \/ r.kind # "reply"

\* stage 5 has run on input and saved artifact
VerifierDone == pc = "verified" /\ runs.verify >= 1

\* stage 6 has run on input and saved artifact
ReviewerDone == pc = "reviewed" /\ runs.review >= 1

\* C1: Self-Verifier failure isolation.  After the stage, every extraction of
\* a page whose oracle call failed, or whose image is missing, is exactly as
\* it was in the stage's input (in both variants).
C1_FailedPageUnmodified ==
    VerifierDone =>
        \A p \in DOMAIN replies.verify :
            CallFailed(replies.verify[p]) =>
                page_extractions(artifact.extractions, p)
                    = page_extractions(input.extractions, p)

\* C2: Escalation failure handling.  After the stage, an extraction whose
\* review call failed (or whose image is missing) is exactly as it was in the
\* stage's input, and the stage counts it neither as confirmed nor as
\* corrected.
C2_FailedReviewUnmodified ==
    ReviewerDone =>
        /\ \A id \in DOMAIN replies.review \cap ids_of(input.extractions) :
               CallFailed(replies.review[id]) =>
                   by_id(artifact.extractions, id) = by_id(input.extractions, id)
        /\ (/\ DOMAIN reviewed_map # {}
            /\ \A id \in DOMAIN reviewed_map : CallFailed(replies.review[id]))
               => stats.confirmed + stats.corrected = 0

\* C3: graceful degradation.  Once a stage has started its loop over pages
\* (stage 5) or over the extractions to review (stage 6), it goes on to
\* save its output: no reply and no failure for one of them ends the stage.
C3_UnitNeverAbortsStage ==
    [][ (pc = "verifying" \/ pc = "reviewing") => (pc' # "aborted") ]_vars

\* C4: confidence range.  In every artifact a stage saves, every
\* extraction's confidence is in [0,1], whatever the oracles reply.
C4_ConfidenceInRange ==
    "extractions" \in DOMAIN artifact =>
        \A i \in 1..Len(artifact.extractions) :
            /\ 0 <= artifact.extractions[i].confidence
            /\ artifact.extractions[i].confidence <= One

\* the correction of the first run's reply that names the extraction, if any
correction_for(e) ==
    LET p == e.source.page
        named == IF p \in DOMAIN replies.verify
                 THEN SelectSeq(replies.verify[p].corrections,
                                LAMBDA c : c.extraction_id = e.extraction_id)
                 ELSE << >>
    IN  IF named = << >> THEN None ELSE Some(named[1])

\* stage 5 applied status CORRECTED to the extraction
VerifierCorrected(e) ==
    /\ IsSome(correction_for(e))
    /\ correction_for(e)[1].status = Some("CORRECTED")

\* stage 6 applied the given decision to the extraction
ReviewerDecided(e, decision) ==
    /\ e.extraction_id \in DOMAIN reviewed_map
    /\ reviewed_map[e.extraction_id].is_dict
    /\ decision_of(reviewed_map[e.extraction_id]) = decision

\* the extractions stage 4 loaded
loaded == load_all(input.files)

\* the confidence after a step is at least the confidence before it
Kept(before, after) == after.confidence >= before.confidence

\* the same up to the cap of min(., 1.0), for a confidence that is not negative
KeptUpToCap(before, after) ==
    before.confidence >= 0 => after.confidence >= Min(before.confidence, One)

\* every extraction a stage saved satisfies Keeps against the extraction of
\* the same id the stage loaded, unless the stage applied one of the excused
\* review decisions or the status CORRECTED to it
LoweredOnlyBy(Keeps(_, _), decisions) ==
    /\ pc = "consolidated" =>
           \A i \in 1..Len(artifact.extractions) :
               Keeps(by_id(loaded, artifact.extractions[i].extraction_id),
                     artifact.extractions[i])
    /\ pc = "consolidated" =>
           LET filtered == filter_extractions(artifact.extractions).filtered
           IN  \A i \in 1..Len(filtered) :
                   Keeps(by_id(artifact.extractions, filtered[i].extraction_id), filtered[i])
    /\ VerifierDone =>
           \A i \in 1..Len(artifact.extractions) :
               LET after == artifact.extractions[i]
                   before == by_id(input.extractions, after.extraction_id)
               IN  Keeps(before, after) \/ VerifierCorrected(before)
    /\ ReviewerDone =>
           \A i \in 1..Len(artifact.extractions) :
               LET after == artifact.extractions[i]
                   before == by_id(input.extractions, after.extraction_id)
               IN  \/ Keeps(before, after)
                   \/ \E d \in decisions : ReviewerDecided(before, d)

\* C5, in the specification's wording:
\* a stage lowers no confidence, except stage 5 by status
\* CORRECTED and stage 6 by decision INCORRECT.
C5_LoweredOnlyByCorrection == LoweredOnlyBy(Kept, { "INCORRECT" })

\* C5, as the code has it:
\* a confidence c >= 0 is at least min(c, 1.0) after a stage,
\* except where the stage overwrites it with the confidence the oracle
\* returned: stage 5 by status CORRECTED, stage 6 by decision CORRECT or
\* INCORRECT.
C5_LoweredOnlyByOracleConfidence ==
    LoweredOnlyBy(KeptUpToCap, { "CORRECT", "INCORRECT" })

\* a CORRECT decision has lowered a confidence, and in the same run of stage
\* 6 an AMBIGUOUS one has left another as it was
C5_Witness ==
    /\ ReviewerDone
    /\ \E i \in 1..Len(artifact.extractions) :
           LET after == artifact.extractions[i]
               before == by_id(input.extractions, after.extraction_id)
           IN  ReviewerDecided(before, "CORRECT") /\ after.confidence < before.confidence
    /\ \E i \in 1..Len(artifact.extractions) :
           LET after == artifact.extractions[i]
               before == by_id(input.extractions, after.extraction_id)
           IN  ReviewerDecided(before, "AMBIGUOUS") /\ after.confidence = before.confidence

\* C6: re-run idempotence.  A stage started again on its own output, the
\* oracle answering as in the first run, saves the extractions it loaded.
C6_RerunChangesNothing ==
    /\ (VerifierDone /\ runs.verify >= 2) => artifact.extractions = input.extractions
    /\ (ReviewerDone /\ runs.review >= 2) => artifact.extractions = input.extractions

\* the distinct value_numeric of a list of extractions
distinct_values(group) == { group[i].value_numeric : i \in 1..Len(group) }

\* the Conflict records stage 4 saved for a key
conflicts_for(key) ==
    SelectSeq(artifact.conflicts,
              LAMBDA c : c.kpi_name = key[1] /\ c.fiscal_year = key[2])

\* the keys of the extractions stage 4 loaded
loaded_keys == { group_key(loaded[i]) : i \in 1..Len(loaded) }

\* C7, in the specification's wording:
\* a group with k >= 2 distinct values has exactly one
\* Conflict record and its values list has exactly k entries.
C7_ConflictListsDistinctValues ==
    pc = "consolidated" =>
        \A key \in loaded_keys :
            LET k == Cardinality(distinct_values(group_of(loaded, key)))
            IN  k >= 2 => /\ Len(conflicts_for(key)) = 1
                          /\ Len(conflicts_for(key)[1].values) = k

\* C7, as the code has it:
\* a group with k >= 2 distinct values has exactly one
\* Conflict record, and its values list has one value / source page /
\* confidence triple per claim of the group, in input order, so a value
\* that n claims repeat is listed n times; a group with one distinct value
\* has no Conflict record.
C7_ConflictListsEveryClaim ==
    pc = "consolidated" =>
        \A key \in loaded_keys :
            LET group == group_of(loaded, key)
                k == Cardinality(distinct_values(group))
                records == conflicts_for(key)
            IN  IF k >= 2
                THEN /\ Len(records) = 1
                     /\ Len(records[1].values) = Len(group)
                     /\ \A j \in 1..Len(group) :
                            /\ records[1].values[j].value = group[j].value_numeric
                            /\ records[1].values[j].source_page = group[j].source.page
                            /\ records[1].values[j].confidence = group[j].confidence
                     /\ { records[1].values[j].value : j \in 1..Len(group) }
                            = distinct_values(group)
                ELSE records = << >>

\* stage 4 saved a Conflict record of a group in which a value is repeated
C7_Witness ==
    /\ pc = "consolidated"
    /\ \E i \in 1..Len(artifact.conflicts) :
           LET values == artifact.conflicts[i].values
           IN  Cardinality({ values[j].value : j \in 1..Len(values) }) < Len(values)

\* stage 4.5 has ended, on extractions of which it discards one
FilterDone ==
    /\ pc \in { "filtered", "aborted" }
    /\ log # << >> => log[1].stage = "filter"
    /\ "extractions" \in DOMAIN input
    /\ filter_extractions(input.extractions).discarded # << >>

\* C8: attribution.  Every discard record of stage 4.5, every candidate a
\* Conflict record of stage 4 lists and every failure stage 5 or 6 records
\* names the extraction by its id, with a reason.
C8_RecordsNameTheClaim ==
    /\ FilterDone =>
           /\ "discarded" \in DOMAIN artifact
           /\ \A i \in 1..Len(artifact.discarded) :
                  { "extraction_id", "reason" } \subseteq DOMAIN artifact.discarded[i]
    /\ pc = "consolidated" =>
           \A i \in 1..Len(artifact.conflicts) :
               \A j \in 1..Len(artifact.conflicts[i].values) :
                   "extraction_id" \in DOMAIN artifact.conflicts[i].values[j]
    /\ pc \in { "verified", "reviewed" } =>
           \A i \in 1..Len(log) :
               log[i].level \in { "warning", "error" } => "extraction_id" \in DOMAIN log[i]

VerificationStatuses == { Some("CONFIRMED"), Some("CORRECTED"), Some("FLAGGED") }

\* the sum of the counts stage 5 saved
counted ==
    artifact.verification_stats.confirmed + artifact.verification_stats.corrected
        + artifact.verification_stats.flagged

\* C9, in the specification's wording:
\* when stage 5 has finished, every extraction of its output
\* has a verification_status of CONFIRMED, CORRECTED or FLAGGED and the three
\* counts add up to the number of extractions.
C9_EveryClaimHasStatus ==
    VerifierDone =>
        /\ \A i \in 1..Len(artifact.extractions) :
               artifact.extractions[i].verification_status \in VerificationStatuses
        /\ counted = Len(artifact.extractions)

\* the page's corrections were applied: the oracle replied, or the call of
\* SelfVerifier failed and counted as a reply without corrections
CorrectionsApplied(r) ==
    /\ r.image
    /\ \/ r.kind = "reply"
       \/ variant = "gemini" /\ r.kind = "call_failed"

\* the page's iteration ended in the exception handler of verify_all
PageRaised(r) == r.image /\ variant = "gemini" /\ r.kind = "bad_schema"

\* C9, as the code has it:
\* when stage 5 has finished its output holds every input
\* extraction.  One whose page had its corrections applied has a status of
\* CONFIRMED, CORRECTED or FLAGGED, unless the correction naming it has
\* another status; one whose page was not verified (image missing, failed
\* call of VastSelfVerifier, exception) is as it was, without a status if it
\* had none.  The three counts add up to the number of extractions with
\* one of the three statuses on pages that raised no exception.
C9_StatusWherePageWasVerified ==
    VerifierDone =>
        /\ ids_of(artifact.extractions) = ids_of(input.extractions)
        /\ Len(artifact.extractions) = Len(input.extractions)
        /\ artifact.total_extractions = Len(input.extractions)
        /\ \A i \in 1..Len(artifact.extractions) :
               LET after == artifact.extractions[i]
                   before == by_id(input.extractions, after.extraction_id)
                   r == replies.verify[after.source.page]
                   named == correction_for(before)
               IN  IF CorrectionsApplied(r)
                   THEN (IsSome(named) /\ IsSome(named[1].status)
                             /\ named[1].status \notin VerificationStatuses)
                        \/ after.verification_status \in VerificationStatuses
                   ELSE after = before
        /\ counted = Cardinality({ i \in 1..Len(artifact.extractions) :
                          /\ artifact.extractions[i].verification_status
                                 \in VerificationStatuses
                          /\ ~PageRaised(replies.verify[artifact.extractions[i].source.page]) })

\* stage 5 has finished with one extraction verified and counted and another,
\* on a page that was not verified, without a status and not counted
C9_Witness ==
    /\ VerifierDone
    /\ \E i \in 1..Len(artifact.extractions) :
           artifact.extractions[i].verification_status = None
    /\ counted >= 1
    /\ counted < Len(artifact.extractions)

\* none of the three triggers of stage 6 holds of any extraction
NoTrigger(extractions) ==
    \A i \in 1..Len(extractions) :
        /\ ~(extractions[i].flags.present /\ extractions[i].flags.needs_review)
        /\ extractions[i].verification_status # Some("FLAGGED")
        /\ extractions[i].confidence >= confidence_threshold

Malformed(f) == ~f.readable \/ f.extractions = None

\* C11: malformed input is fatal.  A stage that has saved an output loaded
\* no unreadable artifact and none that lacks a required field: where stage
\* 4 has saved the consolidated artifact, every page file of its directory
\* was readable and held 'extractions'.
C11_MalformedInputIsFatal ==
    pc = "consolidated" =>
        \A i \in 1..Len(input.files) : ~Malformed(input.files[i])

\* the keys of the extractions stage 4 saved
saved_keys == { group_key(artifact.extractions[i]) : i \in 1..Len(artifact.extractions) }

\* C12: dedup uniqueness.  The output of stage 4 holds exactly one
\* extraction for every (kpi_name, fiscal_year) key of the extractions it
\* loaded, and no two of its extractions share a key.
C12_OneClaimPerKey ==
    pc = "consolidated" =>
        /\ saved_keys = loaded_keys
        /\ Len(artifact.extractions) = Cardinality(loaded_keys)
        /\ \A i, j \in 1..Len(artifact.extractions) :
               i # j => group_key(artifact.extractions[i]) # group_key(artifact.extractions[j])

\* stage 4 has saved two keys out of three loaded extractions
C12_Witness ==
    /\ pc = "consolidated"
    /\ Len(loaded) = 3
    /\ Cardinality(saved_keys) = 2

\* the extraction stage 4 saved for a key
saved_for(key) ==
    CHOOSE e \in Range(artifact.extractions) : group_key(e) = key

\* the keys whose loaded extractions are several and agree on the value
same_value_keys ==
    { k \in loaded_keys : /\ Len(group_of(loaded, k)) >= 2
                          /\ Cardinality(distinct_values(group_of(loaded, k))) = 1 }

\* the largest confidence of a group
highest_confidence(group) ==
    CHOOSE c \in { group[i].confidence : i \in 1..Len(group) } :
        \A i \in 1..Len(group) : group[i].confidence <= c

\* C13: dedup same-value merge.  For a group of two or more loaded
\* extractions with the same key and the same value_numeric, the extraction
\* stage 4 saves is a member with the highest confidence c1, its confidence is
\* min(c1 * 1.1, 1.0), its note lists the source pages of all the members, its
\* other fields (flags among them) are the member's, and no conflict is
\* recorded for the key.
C13_SameValueMerge ==
    pc = "consolidated" =>
        \A k \in same_value_keys :
            LET group == group_of(loaded, k)
                c1 == highest_confidence(group)
                s == saved_for(k)
            IN  /\ \E i \in 1..Len(group) :
                       /\ group[i].confidence = c1
                       /\ s = [ group[i] EXCEPT !.confidence = s.confidence,
                                                !.extraction_notes = s.extraction_notes ]
                /\ s.confidence = Min((c1 * 110) \div 100, One)
                /\ s.extraction_notes =
                       Some(<< [confirmed_across_pages |->
                                  [ i \in 1..Len(group) |-> group[i].source.page ]] >>)
                /\ \A n \in 1..Len(artifact.conflicts) :
                       << artifact.conflicts[n].kpi_name, artifact.conflicts[n].fiscal_year >> # k

\* confidences 0.8 on page 12 and 0.6 on page 45 saved as 0.88 citing both
\* pages
C13_Witness ==
    /\ pc = "consolidated"
    /\ \E k \in same_value_keys :
           /\ [ i \in 1..2 |-> group_of(loaded, k)[i].confidence ] = << 800, 600 >>
           /\ saved_for(k).confidence = 880
           /\ saved_for(k).extraction_notes = Some(<< [confirmed_across_pages |-> << 12, 45 >>] >>)

\* the keys whose loaded extractions disagree on the value
conflict_keys_loaded ==
    { k \in loaded_keys : Cardinality(distinct_values(group_of(loaded, k))) > 1 }

\* whether the flags of an extraction have the key set to true
flag_set(e, needs_review) ==
    /\ e.flags.present
    /\ IF needs_review THEN e.flags.needs_review ELSE e.flags.conflicting_values

\* C14: dedup conflict handling.  For a group of loaded extractions with the
\* same key whose value_numeric values are not all equal, the extraction
\* stage 4 saves is a member with the highest confidence, with its value and
\* confidence unchanged and with flags.needs_review and
\* flags.conflicting_values true, and a conflict is recorded for the key; the
\* extraction saved for any other group has the flags one of its members had.
C14_ConflictHandling ==
    pc = "consolidated" =>
        /\ \A k \in conflict_keys_loaded :
               LET group == group_of(loaded, k)
                   s == saved_for(k)
               IN  /\ \E i \in 1..Len(group) :
                          /\ group[i].confidence = highest_confidence(group)
                          /\ s = [ group[i] EXCEPT !.flags = s.flags ]
                   /\ flag_set(s, TRUE)
                   /\ flag_set(s, FALSE)
                   /\ \E n \in 1..Len(artifact.conflicts) :
                          << artifact.conflicts[n].kpi_name,
                             artifact.conflicts[n].fiscal_year >> = k
        /\ \A k \in loaded_keys \ conflict_keys_loaded :
               \E i \in 1..Len(group_of(loaded, k)) :
                   saved_for(k).flags = group_of(loaded, k)[i].flags

\* stage 4 has saved the survivor of a conflict, 15000 against 15500, next to
\* an extraction of another key that has no flags
C14_Witness ==
    /\ pc = "consolidated"
    /\ \E k \in conflict_keys_loaded :
           /\ Len(group_of(loaded, k)) = 2
           /\ saved_for(k).confidence = 800
           /\ flag_set(saved_for(k), TRUE)
    /\ \E k \in loaded_keys \ conflict_keys_loaded : ~saved_for(k).flags.present

\* where a key occurs first among the loaded extractions
first_occurrence(key) ==
    CHOOSE i \in 1..Len(loaded) :
        /\ group_key(loaded[i]) = key
        /\ \A j \in 1..(i - 1) : group_key(loaded[j]) # key

\* the members of a group that have its highest confidence
tied_at_top(group) ==
    SelectSeq(group, LAMBDA e : e.confidence = highest_confidence(group))

\* C15: dedup tie-break and determinism.  When several extractions of a group
\* share the highest confidence, the one stage 4 saves is the first of them
\* in the order they were loaded; and the saved extractions stand in the
\* order in which their keys first occur among the loaded ones.  The saved
\* list is therefore a function of the loaded list.
C15_FirstOfTheBestSurvives ==
    pc = "consolidated" =>
        /\ \A k \in loaded_keys :
               saved_for(k).extraction_id = tied_at_top(group_of(loaded, k))[1].extraction_id
        /\ \A i, j \in 1..Len(artifact.extractions) :
               i < j => first_occurrence(group_key(artifact.extractions[i]))
                            < first_occurrence(group_key(artifact.extractions[j]))

\* two extractions tie at the top of their group, and a group of another key
\* was loaded before it
C15_Witness ==
    /\ pc = "consolidated"
    /\ Len(artifact.extractions) = 2
    /\ LET k == group_key(artifact.extractions[2])
       IN  /\ Len(tied_at_top(group_of(loaded, k))) = 2
           /\ first_occurrence(k) = 2

\* C16: dedup idempotence.  Deduplicating the extractions stage 4 saved gives
\* the same extractions with the same field values, in the same order, and no
\* conflict.
C16_DedupIdempotent ==
    pc = "consolidated" =>
        _deduplicate_extractions(artifact.extractions) =
            [ deduplicated |-> artifact.extractions, conflicts |-> << >> ]

\* stage 4 has saved a merged extraction next to an extraction of another key
C16_Witness ==
    /\ pc = "consolidated"
    /\ Len(artifact.extractions) = 2
    /\ \E i \in 1..2 : artifact.extractions[i].extraction_notes # None

(***************************************************************************)
(* The filter's rules, stated one by one                                   *)
(***************************************************************************)
Digits == { "0","1","2","3","4","5","6","7","8","9" }

\* the punctuation characters of ASCII (the grave accent aside, which a
\* string of this notation cannot hold)
Punctuation ==
    { "!", "\"", "#", "$", "%", "&", "'", "(", ")", "*", "+", ",", "-", ".", "/",
      ":", ";", "<", "=", ">", "?", "@", "[", "\\", "]", "^", "_", "{", "|",
      "}", "~" }

\* (1) the name is shorter than 3 or longer than 50
fails_length(e) == Len(e.kpi_name) < 3 \/ Len(e.kpi_name) > 50

\* (2) the name, lowered, starts with a blacklisted prefix
fails_prefix(e) ==
    \E n \in 1..Len(BLACKLIST_PREFIXES) : startswith(lower(e.kpi_name), BLACKLIST_PREFIXES[n])

\* (3) the name, lowered, contains a blacklisted phrase
fails_phrase(e) ==
    \E n \in 1..Len(BLACKLIST_CONTAINS) : contains(lower(e.kpi_name), BLACKLIST_CONTAINS[n])

\* (4), in the specification's wording: the name is purely digits and
\* punctuation
fails_digits_punctuation(e) ==
    /\ e.kpi_name # << >>
    /\ \A n \in 1..Len(e.kpi_name) : e.kpi_name[n] \in Digits \cup Punctuation

\* (4), as the code has it: the name is just a number, made of digits, '.'
\* and ',' (a newline may end it)
fails_number(e) ==
    \E n \in { Len(e.kpi_name), Len(e.kpi_name) - 1 } :
        /\ n >= 1
        /\ \A m \in 1..n : e.kpi_name[m] \in Digits \cup { ".", "," }
        /\ n < Len(e.kpi_name) => e.kpi_name[Len(e.kpi_name)] = "\n"

\* (5) no numeric value, in a category that is not exempt
fails_value(e) ==
    e.value_numeric = None /\ e.kpi_category \notin { "forward_looking", "governance" }

\* (6) the unit, lowered and stripped, neither is nor contains a whitelist entry
fails_unit(e) ==
    \A n \in 1..Len(VALID_UNITS) : ~contains(strip(lower(e.unit)), VALID_UNITS[n])

\* (7) the confidence is below 0.50
fails_confidence(e) == e.confidence < 500

\* the seven rules in their order, with rule 4 as the code has it or in the
\* specification's wording
rule_chain(e, as_code) ==
    << fails_length(e), fails_prefix(e), fails_phrase(e),
       IF as_code THEN fails_number(e) ELSE fails_digits_punctuation(e),
       fails_value(e), fails_unit(e), fails_confidence(e) >>

\* the first rule of a chain that fails, 0 if none does
first_failing(chain) ==
    IF \A n \in 1..Len(chain) : ~chain[n] THEN 0
    ELSE CHOOSE n \in 1..Len(chain) : chain[n] /\ \A m \in 1..(n - 1) : ~chain[m]

\* the reason codes of the seven rules
rule_reasons ==
    << { "name_too_long", "name_too_short" }, { "blacklist_prefix_" }, { "blacklist_contains" },
       { "just_a_number" }, { "no_numeric_value" }, { "invalid_unit" }, { "low_confidence" } >>

\* the extractions filter_extractions() was given, once it has returned
filter_input == IF filter_result = None THEN << >> ELSE input.extractions

\* the discard records filter_extractions() made for an extraction
discards_of(e) ==
    { d \in Range(filter_result[1].discarded) : d.extraction = e }

\* the filter rejects an extraction exactly if a rule of the chain fails, with
\* a reason of the first rule that fails
FollowsChain(as_code) ==
    \A i \in 1..Len(filter_input) :
        LET e == filter_input[i]
            first == first_failing(rule_chain(e, as_code))
        IN  /\ discards_of(e) # {} <=> first # 0
            /\ e \in Range(filter_result[1].filtered) <=> first = 0
            /\ \A d \in discards_of(e) : first # 0 /\ d.reason[1] \in rule_reasons[first]

\* C17, in the specification's wording:
\* for every extraction the filter rejects it if and only if at least one of
\* the seven rules fails, and the recorded reason is that of the first rule
\* that fails, where rule 4 is "the name is purely digits and punctuation".
C17_RuleChainDigitsPunctuation == FollowsChain(FALSE)

\* C17, as the code has it:
\* for every extraction the filter rejects it if and only if at least one of
\* the seven rules fails, and the recorded reason is that of the first rule
\* that fails, where rule 4 is "the name is made of digits, '.' and ',' only".
C17_RuleChainJustANumber == FollowsChain(TRUE)

\* the filter has discarded an extraction that fails rule 5 alone, with
\* reason no_numeric_value, and has retained one named "12/34"
C17_Witness ==
    /\ filter_result # None
    /\ \E d \in Range(filter_result[1].discarded) :
           /\ d.reason = << "no_numeric_value" >>
           /\ \A n \in { 1, 2, 3, 4, 6, 7 } : ~rule_chain(d.extraction, TRUE)[n]
    /\ \E e \in Range(filter_result[1].filtered) : e.kpi_name = NameFraction

\* C18: filter monotonicity.  Every extraction the filter retains has a name
\* of 3 to 50 characters, a confidence of at least 0.50, and a numeric value
\* or the category forward_looking or governance.
C18_RetainedAreSound ==
    filter_result # None =>
        \A i \in 1..Len(filter_result[1].filtered) :
            LET e == filter_result[1].filtered[i]
            IN  /\ 3 <= Len(e.kpi_name)
                /\ Len(e.kpi_name) <= 50
                /\ e.confidence >= 500
                /\ \/ e.value_numeric # None
                   \/ e.kpi_category \in { "forward_looking", "governance" }

\* the filter has retained an extraction at the edge of every condition (a
\* name of fifty characters, confidence 0.50, no value in category
\* governance) and has discarded another
C18_Witness ==
    /\ filter_result # None
    /\ filter_result[1].discarded # << >>
    /\ \E i \in 1..Len(filter_result[1].filtered) :
           LET e == filter_result[1].filtered[i]
           IN  /\ Len(e.kpi_name) = 50
               /\ e.confidence = 500
               /\ e.value_numeric = None
               /\ e.kpi_category = "governance"

\* C19: filter idempotence.  The filter changes no field of an extraction it
\* retains, and the filter applied to the extractions it retained retains
\* every one of them and discards none.
C19_FilterIdempotent ==
    filter_result # None =>
        LET kept == filter_result[1].filtered
        IN  /\ \A i \in 1..Len(kept) : kept[i] \in Range(input.extractions)
            /\ ~filter_raises(kept)
            /\ filter_extractions(kept) = [ filtered |-> kept, discarded |-> << >> ]

\* stage 4.5 has ended, with its output saved or with an exception
filter_ended ==
    \/ pc = "filtered"
    \/ pc = "aborted" /\ log # << >> /\ log[Len(log)].stage = "filter"

\* C20: filter partition (no silent drop).  Stage 4.5 gives an output in
\* which every extraction of its input is either among the extractions or
\* named by a discard record, never both, every discard record has a reason,
\* and total_before_filtering = total_after_filtering + total_discarded.
C20_FilterPartition ==
    filter_ended =>
        /\ pc = "filtered"
        /\ \A i \in 1..Len(input.extractions) :
               LET e == input.extractions[i]
               IN  e \in Range(artifact.extractions)
                       <=> ~\E n \in 1..Len(artifact.discarded) :
                                artifact.discarded[n].kpi_name = e.kpi_name
        /\ \A n \in 1..Len(artifact.discarded) : artifact.discarded[n].reason # << >>
        /\ artifact.total_before_filtering =
               artifact.total_after_filtering + artifact.total_discarded

(***************************************************************************)
(* Verification and escalation                                             *)
(***************************************************************************)
\* C21: verification default.  An extraction of a page the oracle answered,
\* whose id is not in the corrections of the answer, leaves stage 5 with
\* verification_status CONFIRMED, with its value_numeric, its confidence and
\* its flags as they were.
C21_UnnamedIsConfirmedAsItWas ==
    LET Answered(page) ==
            /\ page \in DOMAIN replies.verify
            /\ replies.verify[page].image
            /\ replies.verify[page].kind = "reply"
    IN  VerifierDone =>
            \A e \in Range(input.extractions) :
                Answered(e.source.page) /\ correction_for(e) = None =>
                    LET after == by_id(artifact.extractions, e.extraction_id)
                    IN  /\ after.verification_status = Some("CONFIRMED")
                        /\ after.value_numeric = e.value_numeric
                        /\ after.confidence = e.confidence
                        /\ after.flags = e.flags

\* the oracle answered for a page with a correction for one of its two
\* extractions, and stage 5 has saved the other as CONFIRMED
C21_Witness ==
    /\ VerifierDone
    /\ runs.verify = 1
    /\ \E e \in Range(input.extractions) :
           /\ e.source.page \in DOMAIN replies.verify
           /\ replies.verify[e.source.page].image
           /\ replies.verify[e.source.page].kind = "reply"
           /\ correction_for(e) = None
           /\ replies.verify[e.source.page].corrections # << >>
           /\ by_id(artifact.extractions, e.extraction_id).verification_status
                  = Some("CONFIRMED")

\* C22: end-to-end FLAGGED retention.  No step of the pipeline removes an
\* extraction that stage 5 flagged (FLAGGED, with needs_review set) or
\* changes its verification_status, and none clears its needs_review flag
\* unless the review oracle answered for it with CORRECT or INCORRECT; so
\* with every review failed or none made it is still FLAGGED with
\* needs_review set when the pipeline ends.
C22_FlaggedStaysFlagged ==
    [][ LET IsFlagged(e) ==
                /\ HasStatus(e, "FLAGGED")
                /\ e.flags.present
                /\ e.flags.needs_review
            ReviewSucceeded(reviews, id) ==
                /\ id \in DOMAIN reviews
                /\ ~CallFailed(reviews[id])
                /\ reviews[id].answer[1].review_decision
                       \in { Some("CORRECT"), Some("INCORRECT") }
        IN  ("extractions" \in DOMAIN artifact) =>
                \A id \in ids_of(artifact.extractions) :
                    IsFlagged(by_id(artifact.extractions, id)) =>
                        /\ id \in ids_of(artifact'.extractions)
                        /\ HasStatus(by_id(artifact'.extractions, id), "FLAGGED")
                        /\ \/ IsFlagged(by_id(artifact'.extractions, id))
                           \/ ReviewSucceeded(replies'.review, id) ]_vars

\* stage 6 has saved an extraction stage 5 flagged and whose review failed:
\* it is still FLAGGED and still needs review
C22_Witness ==
    /\ ReviewerDone
    /\ \E i \in 1..Len(artifact.extractions) :
           LET after == artifact.extractions[i]
               before == by_id(input.extractions, after.extraction_id)
           IN  /\ HasStatus(after, "FLAGGED")
               /\ after.flags.present /\ after.flags.needs_review
               /\ HasStatus(before, "FLAGGED")
               /\ before.flags.present /\ before.flags.needs_review
               /\ after.extraction_id \in DOMAIN replies.review
               /\ CallFailed(replies.review[after.extraction_id])

\* C23: Self-Verifier transition table.  For an extraction that a correction
\* of an answered page names, the correction's status decides what stage 5
\* saves.  CONFIRMED: confidence min(confidence * 1.05, 1.0), status
\* CONFIRMED, value unchanged.  CORRECTED: value_numeric and value_actual are
\* corrected_value, confidence is the correction's verification_confidence,
\* status CORRECTED, and the note records the old and the new value.
\* FLAGGED: status FLAGGED and flags.needs_review true, value and confidence
\* unchanged.  Each time a note is recorded and extraction_id, kpi_name,
\* fiscal_year and source are unchanged.
C23_TransitionTable ==
    LET Answered(page) ==
            /\ page \in DOMAIN replies.verify
            /\ replies.verify[page].image
            /\ replies.verify[page].kind = "reply"
    IN  VerifierDone =>
            \A e \in Range(input.extractions) :
                Answered(e.source.page) /\ correction_for(e) # None =>
                    LET c == correction_for(e)[1]
                        after == by_id(artifact.extractions, e.extraction_id)
                    IN  /\ after.extraction_id = e.extraction_id
                        /\ after.kpi_name = e.kpi_name
                        /\ after.fiscal_year = e.fiscal_year
                        /\ after.source = e.source
                        /\ c.status = Some("CONFIRMED") =>
                               /\ after.confidence = Min((e.confidence * 105) \div 100, One)
                               /\ after.verification_status = Some("CONFIRMED")
                               /\ after.value_numeric = e.value_numeric
                               /\ after.value_actual = e.value_actual
                               /\ after.verification_notes # None
                        /\ c.status = Some("CORRECTED") =>
                               /\ after.value_numeric = c.corrected_value
                               /\ after.value_actual = c.corrected_value
                               /\ IsSome(c.verification_confidence) =>
                                      after.confidence = c.verification_confidence[1]
                               /\ after.verification_status = Some("CORRECTED")
                               /\ after.verification_notes # None
                               /\ after.verification_notes[1].from = e.value_numeric
                               /\ after.verification_notes[1].to = c.corrected_value
                        /\ c.status = Some("FLAGGED") =>
                               /\ after.verification_status = Some("FLAGGED")
                               /\ after.flags.present /\ after.flags.needs_review
                               /\ after.value_numeric = e.value_numeric
                               /\ after.confidence = e.confidence
                               /\ after.verification_notes # None

\* stage 5 has saved a corrected extraction: 16000 at confidence 0.3 where
\* the input had another value
C23_Witness ==
    /\ VerifierDone
    /\ runs.verify = 1
    /\ \E e \in Range(input.extractions) :
           /\ e.source.page \in DOMAIN replies.verify
           /\ replies.verify[e.source.page].image
           /\ replies.verify[e.source.page].kind = "reply"
           /\ correction_for(e) # None
           /\ correction_for(e)[1].status = Some("CORRECTED")
           /\ correction_for(e)[1].verification_confidence = Some(300)
           /\ e.value_numeric # Some(16000)
           /\ by_id(artifact.extractions, e.extraction_id).value_actual = Some(16000)
           /\ by_id(artifact.extractions, e.extraction_id).confidence = 300

\* C24: escalation candidate selection.  Stage 6 submits an extraction for
\* review if and only if its needs_review flag is set, or it is FLAGGED, or
\* its confidence is strictly below the threshold of 0.70; it submits each
\* one once in a run, and it saves every other extraction as it was.
C24_CandidatesAreSubmitted ==
    LET candidates ==
            { e.extraction_id : e \in
                { x \in Range(input.extractions) :
                    \/ x.flags.present /\ x.flags.needs_review
                    \/ x.verification_status = Some("FLAGGED")
                    \/ x.confidence < confidence_threshold } }
        to_submit == { todo[i] : i \in 1..Len(todo) }
        submitted == DOMAIN reviewed_map
    IN  /\ pc = "reviewing" =>
               /\ to_submit \cup submitted = candidates
               /\ to_submit \cap submitted = {}
               /\ Cardinality(to_submit) = Len(todo)
        /\ ReviewerDone =>
               /\ submitted = candidates
               /\ \A e \in Range(input.extractions) :
                      e.extraction_id \notin candidates =>
                          by_id(artifact.extractions, e.extraction_id) = e

\* stage 6 has reviewed an extraction and has saved another, of confidence
\* 0.70 exactly, without submitting it
C24_Witness ==
    /\ ReviewerDone
    /\ DOMAIN reviewed_map # {}
    /\ \E e \in Range(input.extractions) :
           /\ e.confidence = confidence_threshold
           /\ e.extraction_id \notin DOMAIN reviewed_map
           /\ by_id(artifact.extractions, e.extraction_id) = e

\* C25: escalation transitions of flag, confidence and value.  For an
\* extraction with a flags record for which the review oracle answered:
\* CORRECT gives needs_review false, the confidence of the review, and the
\* value unchanged; INCORRECT gives value_numeric and value_actual equal to
\* corrected_value, the confidence of the review, and needs_review false;
\* AMBIGUOUS gives needs_review true, value and confidence unchanged, and the
\* oracle's reasoning in the notes.
C25_ReviewTransitions ==
    LET reviewed_with_answer ==
            { e \in Range(input.extractions) :
                /\ e.extraction_id \in DOMAIN reviewed_map
                /\ e.extraction_id \in DOMAIN replies.review
                /\ ~CallFailed(replies.review[e.extraction_id]) }
    IN  ReviewerDone =>
            \A e \in reviewed_with_answer :
                LET a == replies.review[e.extraction_id].answer[1]
                    after == by_id(artifact.extractions, e.extraction_id)
                IN  e.flags.present =>
                    /\ a.review_decision = Some("CORRECT") =>
                           /\ after.flags.present /\ ~after.flags.needs_review
                           /\ IsSome(a.gemini_confidence) =>
                                  after.confidence = a.gemini_confidence[1]
                           /\ after.value_numeric = e.value_numeric
                           /\ after.value_actual = e.value_actual
                    /\ a.review_decision = Some("INCORRECT") =>
                           /\ after.value_numeric = a.corrected_value
                           /\ after.value_actual = a.corrected_value
                           /\ IsSome(a.gemini_confidence) =>
                                  after.confidence = a.gemini_confidence[1]
                           /\ after.flags.present /\ ~after.flags.needs_review
                    /\ a.review_decision = Some("AMBIGUOUS") =>
                           /\ after.flags.present /\ after.flags.needs_review
                           /\ after.value_numeric = e.value_numeric
                           /\ after.value_actual = e.value_actual
                           /\ after.confidence = e.confidence
                           /\ after.gemini_notes # None
                           /\ IsSome(a.reasoning) =>
                                  after.gemini_notes[1].reasoning = a.reasoning[1]

\* stage 6 has saved an extraction that needed review and was found CORRECT
\* at confidence 0.3: its flag is cleared and its confidence is 0.3
C25_Witness ==
    /\ ReviewerDone
    /\ runs.review = 1
    /\ \E e \in Range(input.extractions) :
           /\ e.extraction_id \in DOMAIN reviewed_map
           /\ e.extraction_id \in DOMAIN replies.review
           /\ ~CallFailed(replies.review[e.extraction_id])
           /\ e.flags.present /\ e.flags.needs_review
           /\ replies.review[e.extraction_id].answer[1].review_decision = Some("CORRECT")
           /\ replies.review[e.extraction_id].answer[1].gemini_confidence = Some(300)
           /\ ~by_id(artifact.extractions, e.extraction_id).flags.needs_review
           /\ by_id(artifact.extractions, e.extraction_id).confidence = 300

\* C26: review tier annotation.  After stage 6 every extraction found
\* CORRECT or INCORRECT has review_tier "automatic", every extraction found
\* AMBIGUOUS has review_tier "manual", and an extraction the oracle gave no
\* answer for has the review_tier it had in the stage's input.
C26_ReviewTierAnnotated ==
    ReviewerDone =>
        \A e \in Range(input.extractions) :
            LET after == by_id(artifact.extractions, e.extraction_id)
                answered ==
                    /\ e.extraction_id \in DOMAIN reviewed_map
                    /\ e.extraction_id \in DOMAIN replies.review
                    /\ ~CallFailed(replies.review[e.extraction_id])
                a == replies.review[e.extraction_id].answer[1]
            IN  IF answered
                THEN /\ a.review_decision \in { Some("CORRECT"), Some("INCORRECT") }
                            => after.review_tier = Some("automatic")
                     /\ a.review_decision = Some("AMBIGUOUS")
                            => after.review_tier = Some("manual")
                ELSE after.review_tier = e.review_tier

\* C27: order independence of oracle calls.  With the pages of stage 5 (the
\* extractions of stage 6) taken in any order, every extraction a stage
\* saves is what the reply for its own page (for itself) makes of it: the
\* order has no part in it, and neither has the reply for another page,
\* whatever ids it names.
C27_OrderHasNoPart ==
    LET verified_alone(e) ==
            LET page == e.source.page
                result == _verify_page(variant, page_extractions(input.extractions, page),
                                       replies.verify[page])
            IN  by_id(result.verified, e.extraction_id)
        reviewed_alone(e) ==
            IF e.extraction_id \in DOMAIN reviewed_map
            THEN review_one(e, (e.extraction_id :>
                                  _review_extraction(replies.review[e.extraction_id])))
            ELSE e
    IN  /\ VerifierDone =>
               \A e \in Range(input.extractions) :
                   by_id(artifact.extractions, e.extraction_id) = verified_alone(e)
        /\ ReviewerDone =>
               \A e \in Range(input.extractions) :
                   by_id(artifact.extractions, e.extraction_id) = reviewed_alone(e)

\* stage 5 has taken the pages in another order than verify_all's, and a
\* reply named an extraction of another page
C27_Witness ==
    /\ VerifierDone
    /\ artifact.extractions # << >>
    /\ artifact.extractions[1].source.page # page_order(input.extractions, << >>)[1]
    /\ \E page \in DOMAIN replies.verify :
           /\ replies.verify[page].others # {}
           /\ replies.verify[page].corrections # << >>

\* C28: conflict resolution is eventually reached.  The representative of
\* every conflict (the extraction stage 4 marked as holding conflicting
\* values) goes through stage 4.5 and stage 5 with its needs_review flag
\* set, is submitted for review in stage 6, and is saved by stage 6 with the
\* flag still set, or cleared by a CORRECT or INCORRECT decision.
C28_ConflictReachesReview ==
    LET representatives ==
            IF "extractions" \in DOMAIN input
            THEN { e \in Range(input.extractions) :
                     e.flags.present /\ e.flags.conflicting_values }
            ELSE {}
        ReviewSucceeded(id) ==
            /\ id \in DOMAIN replies.review
            /\ ~CallFailed(replies.review[id])
            /\ replies.review[id].answer[1].review_decision
                   \in { Some("CORRECT"), Some("INCORRECT") }
    IN  /\ filter_ended =>
               \A e \in representatives :
                   /\ pc = "filtered"
                   /\ e \in Range(artifact.extractions)
        /\ VerifierDone =>
               \A e \in representatives :
                   /\ e.extraction_id \in ids_of(artifact.extractions)
                   /\ by_id(artifact.extractions, e.extraction_id).flags.needs_review
        /\ ReviewerDone =>
               \A e \in representatives :
                   /\ e.extraction_id \in DOMAIN reviewed_map
                   /\ \/ by_id(artifact.extractions, e.extraction_id).flags.needs_review
                      \/ ReviewSucceeded(e.extraction_id)

\* C29: GPU instance cleanup.  Whenever verify_all of the Vast variant is
\* not running (it has not started, has returned, or has raised), no
\* instance that a run of it created exists: the instance is destroyed on
\* normal completion, after per-page failures, and after a failure or
\* timeout while waiting for the created instance to become ready.
C29_InstanceIsDestroyed ==
    pc # "verifying" => instance = "none"

\* C30: the empty claim set is handled.  On a well-formed input without
\* claims (for stage 4 a directory of page files that load and hold
\* 'extractions', none of them with an extraction), stage 4, stage 4.5 and
\* stage 5 each end without an exception and save an output with no
\* extractions, no conflicts or discards, and counts of 0.
C30_EmptyClaimSetIsHandled ==
    LET ended_in_error(stage) ==
            \E i \in 1..Len(log) : log[i].stage = stage /\ log[i].level = "fatal"
        empty_directory ==
            /\ "files" \in DOMAIN input
            /\ \A i \in 1..Len(input.files) :
                   input.files[i].readable /\ IsSome(input.files[i].extractions)
            /\ load_all(input.files) = << >>
        empty_extractions ==
            /\ "extractions" \in DOMAIN input
            /\ input.extractions = << >>
    IN  /\ pc = "consolidated" /\ empty_directory =>
               /\ ~ended_in_error("consolidate")
               /\ artifact.extractions = << >>
               /\ artifact.conflicts = << >>
               /\ artifact.total_unique_extractions = 0
        /\ filter_ended /\ empty_extractions =>
               /\ pc = "filtered"
               /\ artifact.extractions = << >>
               /\ artifact.discarded = << >>
               /\ artifact.total_after_filtering = 0
               /\ artifact.total_discarded = 0
        /\ VerifierDone /\ empty_extractions =>
               /\ ~ended_in_error("verify")
               /\ artifact.extractions = << >>
               /\ artifact.total_extractions = 0
               /\ artifact.verification_stats = NoStats

====
